---- MODULE Spec2Model ----
(***************************************************************************)
(* Tamper-evident ledger of av-safe-toolkit: canonicalisation, hash        *)
(* chaining (integrity/hash_chain.py), signing (integrity/signing.py) and  *)
(* the ledger verifiers (report/render_html.py, cloud/common.py).          *)
(*                                                                         *)
(* Bytes are sequences of naturals.  A digest is the sequence              *)
(* <<algorithm>> \o input, so two digests are equal exactly when the       *)
(* algorithm and the hashed bytes are equal (collision-free hash).         *)
(* An Ed25519 signature is <<ED_SIG, key>> \o message and the public key   *)
(* of private key k is <<ED_PUB, k>> (unforgeable, deterministic).         *)
(***************************************************************************)
EXTENDS Integers, Sequences, FiniteSets, TLC

VARIABLES minutes, orig, tamper, env, vc, verdicts, cloud, sgn, vfy

\* hash_chain.py called directly: the last call and its result
VARIABLES hc

\* rules/evaluator.py: the minutes file, the profile, the last result
VARIABLES ev_minutes, profile, out

\* server/app.py: _IDEMP_CACHE, the minutes table of DB,
\* _SESSION_LAST_RESULTS, the requests suspended at 'await file.read()',
\* and the responses sent so far
VARIABLES IDEMP_CACHE, db, SESSION_LAST_RESULTS, inflight, responses

\* rules/ieee_1789.py called directly: the curve configuration, the result
\* of normalize_curve_config and the result of allowed_mod_percent
VARIABLES curve, normalized, allowance

ledgerVars == <<minutes, orig, tamper, env, vc, verdicts, cloud, sgn, vfy>>

hashVars == <<hc>>

evalVars == <<ev_minutes, profile, out>>

serverVars == <<IDEMP_CACHE, db, SESSION_LAST_RESULTS, inflight, responses>>

curveVars == <<curve, normalized, allowance>>

laterVars == <<hashVars, evalVars, serverVars, curveVars>>

vars == <<ledgerVars, laterVars>>

(* ------------------------------- bounds -------------------------------- *)

MaxLen == 3

NPayloads == 2

NKeys == 2

(* -------------------------- program constants -------------------------- *)

CHAIN_DOMAIN == 1

SIGN_DOMAIN == 2

DEMO_SECRET == 3

SHA256 == 11

BLAKE2B == 12

OTHER_ALG == 13

ED25519 == 21

SHA256_DEMO == 22

OTHER_SCHEME == 23

ED_SIG == 31

ED_PUB == 32

SEED_UTF8 == 33

JUNK == 99

(* ----------------------------- JSON values ----------------------------- *)
(* A scalar found in a parsed record: null, a string that is valid hex     *)
(* ("hex": lower case as hexdigest() prints it, "hexU": the same bytes     *)
(* written in upper case), any other string ("txt"), a non-zero number,    *)
(* or no value at all ("absent": the key is not in the dict).              *)

Null == [t |-> "null", v |-> <<>>]

Absent == [t |-> "absent", v |-> <<>>]

Hex(b) == [t |-> "hex", v |-> b]

HexU(b) == [t |-> "hexU", v |-> b]

Txt(n) == [t |-> "txt", v |-> <<n>>]

Num(n) == [t |-> "num", v |-> <<n>>]

\* dict.get(key): a missing key reads as None
Get(x) == IF x.t = "absent" THEN Null ELSE x

\* Python truthiness of the value
Truthy(x) == x.t \in {"txt", "num"} \/ (x.t \in {"hex", "hexU"} /\ x.v # <<>>)

IsStr(x) == x.t \in {"hex", "hexU", "txt"}

\* str.lower(): only the upper-case hex spelling changes
Lower(x) == IF x.t = "hexU" THEN Hex(x.v) ELSE x

Payloads == 1 .. NPayloads

Keys == 1 .. NKeys

NaNPayload == 0

AnnCode(a) ==
    CASE a = "none" -> 0
      [] a = "missing" -> 1
      [] a = "valid" -> 2
      [] a = "invalid" -> 3
      [] a = "unverified" -> 4

\* the record without its 'chain' key
PayloadOf(rec) == [pl |-> rec.pl, dev |-> rec.dev, ann |-> rec.ann]

(* ---------------------------- hash_chain.py ---------------------------- *)

Raise(e) == [raised |-> TRUE, exc |-> e, val |-> <<>>]

Return(b) == [raised |-> FALSE, exc |-> "", val |-> b]

\* json.dumps(sort_keys, allow_nan=False): ValueError on NaN, else the
\* canonical bytes, one code per distinct content
canonical_json(payload) ==
    IF payload.pl = NaNPayload
    THEN Raise("ValueError")
    ELSE Return(<<100 + ((payload.pl * (NKeys + 1) + payload.dev) * 5) + AnnCode(payload.ann)>>)

Hash(algcode, bytes) == <<algcode>> \o bytes

\* _new_hasher: alg.lower(), then sha256 / blake2b / ValueError
new_hasher(alg) ==
    IF ~IsStr(alg) THEN Raise("AttributeError")
    ELSE IF alg = Txt(SHA256) THEN Return(<<SHA256>>)
    ELSE IF alg = Txt(BLAKE2B) THEN Return(<<BLAKE2B>>)
    ELSE Raise("ValueError")

\* bytes.fromhex(s)
fromhex(s) ==
    IF ~IsStr(s) THEN Raise("TypeError")
    ELSE IF s.t = "txt" THEN Raise("ValueError")
    ELSE Return(s.v)

(* A payload as json.loads builds it: a number, NaN, an array, or an object *)
(* whose members are kept in insertion order (kids: a sequence of          *)
(* [v |-> value, k |-> key]; the keys of one object are distinct).         *)

JNum(n) == [t |-> "num", n |-> n, kids |-> <<>>]

JNaN == [t |-> "nan", n |-> 0, kids |-> <<>>]

\* the items of an array as members without a key
RECURSIVE Unkeyed(_)
Unkeyed(items) ==
    IF items = <<>> THEN <<>>
    ELSE <<[v |-> Head(items), k |-> 0]>> \o Unkeyed(Tail(items))

JArr(items) == [t |-> "arr", n |-> 0, kids |-> Unkeyed(items)]

JObj(kids) == [t |-> "obj", n |-> 0, kids |-> kids]

\* the characters json.dumps writes around the values
J_OPEN_OBJ == 41

J_CLOSE_OBJ == 42

J_OPEN_ARR == 43

J_CLOSE_ARR == 44

J_COMMA == 45

J_COLON == 46

J_NUM == 47

J_KEY == 48

RECURSIVE HasNaN(_)
HasNaN(obj) ==
    \/ obj.t = "nan"
    \/ \E i \in 1 .. Len(obj.kids) : HasNaN(obj.kids[i].v)

\* sort_keys left out: the members stay in insertion order
sort_keys_off(kids) == kids

\* sort_keys=True: the members of one object in ascending key order
RECURSIVE sort_keys(_)
sort_keys(kids) ==
    IF kids = <<>> THEN <<>>
    ELSE LET m == CHOOSE i \in 1 .. Len(kids) : \A j \in 1 .. Len(kids) : kids[i].k <= kids[j].k
         IN  <<kids[m]>> \o sort_keys(SubSeq(kids, 1, m - 1) \o SubSeq(kids, m + 1, Len(kids)))

\* the text json.dumps writes for a value without NaN
RECURSIVE Encode(_), EncodeItems(_, _, _)
Encode(obj) ==
    CASE obj.t = "num" -> <<J_NUM, obj.n>>
      [] obj.t = "arr" -> <<J_OPEN_ARR>> \o EncodeItems(obj.kids, 1, FALSE) \o <<J_CLOSE_ARR>>
      [] obj.t = "obj" -> <<J_OPEN_OBJ>> \o EncodeItems(sort_keys(obj.kids), 1, TRUE) \o <<J_CLOSE_OBJ>>

EncodeItems(kids, i, keyed) ==
    IF i > Len(kids) THEN <<>>
    ELSE (IF i > 1 THEN <<J_COMMA>> ELSE <<>>)
         \o (IF keyed THEN <<J_KEY, kids[i].k, J_COLON>> ELSE <<>>)
         \o Encode(kids[i].v)
         \o EncodeItems(kids, i + 1, keyed)

\* json.dumps(obj, ensure_ascii=False, sort_keys=True, separators=(",", ":"),
\* allow_nan=False), the call canonical_json makes, on a payload tree
json_dumps(obj) ==
    IF HasNaN(obj) THEN Raise("ValueError") ELSE Return(Encode(obj))

\* chain_hash that leaves the previous hash out of the digest
chain_hash_no_prev(prev_hex, cj, alg, domain) ==
    LET h == new_hasher(alg)
    IN  IF h.raised THEN h
        ELSE IF cj.raised THEN cj
        ELSE Return(Hex(Hash(h.val[1], <<domain>> \o cj.val)))

\* chain_hash that feeds 'prev_hex or ""' to the hasher as text, so that a
\* missing prev still contributes a (zero) block
chain_hash_pads_prev(prev_hex, cj, alg, domain) ==
    LET h == new_hasher(alg)
        pb == IF Truthy(prev_hex) THEN fromhex(prev_hex) ELSE Return(<<0>>)
    IN  IF h.raised THEN h
        ELSE IF pb.raised THEN pb
        ELSE IF cj.raised THEN cj
        ELSE Return(Hex(Hash(h.val[1], <<domain>> \o pb.val \o cj.val)))

\* the body of chain_hash, cj being what canonical_json(payload) gives:
\* hasher, domain, the bytes of prev_hex when it is truthy, the canonical
\* bytes; the exceptions in the order the statements raise them
chain_hash_bytes(prev_hex, cj, alg, domain) ==
    LET h == new_hasher(alg)
        pb == IF Truthy(prev_hex) THEN fromhex(prev_hex) ELSE Return(<<>>)
    IN  IF h.raised THEN h
        ELSE IF pb.raised THEN pb
        ELSE IF cj.raised THEN cj
        ELSE Return(Hex(Hash(h.val[1], <<domain>> \o pb.val \o cj.val)))

chain_hash(prev_hex, payload, alg, domain) ==
    chain_hash_bytes(prev_hex, canonical_json(payload), alg, domain)

\* a record as the model holds it: the payload keys (pl, dev, and ann for a
\* '_sig_status' key), and the chain block's keys
Rec(pl, dev, hash, alg, prev) ==
    [shape |-> "obj", pl |-> pl, dev |-> dev, ann |-> "none", chain |-> "obj",
     hash |-> hash, alg |-> alg, prev |-> prev,
     scheme |-> Absent, signature_hex |-> Absent, public_key_hex |-> Absent]

\* make_record that sets payload["chain"] and returns payload itself
make_record_in_place(payload, prev_hex, alg) ==
    LET d == chain_hash(prev_hex, payload, alg, CHAIN_DOMAIN)
    IN  IF "chain" \in DOMAIN payload
        THEN [raised |-> TRUE, exc |-> "ValueError", val |-> <<>>, payload |-> payload]
        ELSE IF d.raised
        THEN [raised |-> TRUE, exc |-> d.exc, val |-> <<>>, payload |-> payload]
        ELSE [raised |-> FALSE, exc |-> "",
              val |-> Rec(payload.pl, payload.dev, d.val, alg, prev_hex),
              payload |-> [pl |-> payload.pl, dev |-> payload.dev, ann |-> payload.ann,
                           chain |-> "obj"]]

\* make_record: what it raises or returns, and in 'payload' the argument
\* dict as the call leaves it (payload | {...} builds a new dict)
make_record(payload, prev_hex, alg) ==
    LET d == chain_hash(prev_hex, payload, alg, CHAIN_DOMAIN)
    IN  IF "chain" \in DOMAIN payload
        THEN [raised |-> TRUE, exc |-> "ValueError", val |-> <<>>, payload |-> payload]
        ELSE IF d.raised
        THEN [raised |-> TRUE, exc |-> d.exc, val |-> <<>>, payload |-> payload]
        ELSE [raised |-> FALSE, exc |-> "",
              val |-> Rec(payload.pl, payload.dev, d.val, alg, prev_hex),
              payload |-> payload]

\* verify_link without the digest comparison (only the prev pointer is checked)
verify_link_no_digest(prev_hex, record) ==
    IF record.shape \in {"num", "null"} THEN [raised |-> TRUE, ok |-> FALSE, reason |-> "TypeError"]
    ELSE IF record.shape # "obj" \/ record.chain # "obj"
    THEN [raised |-> FALSE, ok |-> FALSE, reason |-> "missing or invalid 'chain' block"]
    ELSE IF ~IsStr(Get(record.hash))
    THEN [raised |-> FALSE, ok |-> FALSE, reason |-> "missing expected hash"]
    ELSE IF Get(record.prev) # Null /\ prev_hex # Null /\ Get(record.prev) # prev_hex
    THEN [raised |-> FALSE, ok |-> FALSE, reason |-> "prev pointer does not match provided prev hash"]
    ELSE [raised |-> FALSE, ok |-> TRUE, reason |-> "ok"]

verify_link(prev_hex, record) ==
    IF record.shape \in {"num", "null"} THEN [raised |-> TRUE, ok |-> FALSE, reason |-> "TypeError"]
    ELSE IF record.shape # "obj" \/ record.chain # "obj"
    THEN [raised |-> FALSE, ok |-> FALSE, reason |-> "missing or invalid 'chain' block"]
    ELSE
    LET expected == Get(record.hash)
        alg == IF record.alg.t = "absent" THEN Txt(SHA256) ELSE record.alg
        rec_prev == Get(record.prev)
        recomputed == chain_hash(prev_hex, PayloadOf(record), alg, CHAIN_DOMAIN)
    IN  IF ~IsStr(expected)
        THEN [raised |-> FALSE, ok |-> FALSE, reason |-> "missing expected hash"]
        ELSE IF rec_prev # Null /\ prev_hex # Null /\ rec_prev # prev_hex
        THEN [raised |-> FALSE, ok |-> FALSE, reason |-> "prev pointer does not match provided prev hash"]
        ELSE IF recomputed.raised
        THEN [raised |-> FALSE, ok |-> FALSE, reason |-> "recompute failed"]
        ELSE IF recomputed.val # expected
        THEN [raised |-> FALSE, ok |-> FALSE, reason |-> "digest mismatch"]
        ELSE [raised |-> FALSE, ok |-> TRUE, reason |-> "ok"]

RECURSIVE verify_chain_from(_, _, _)
verify_chain_from(records, idx, prev) ==
    IF idx > Len(records)
    THEN [ran |-> TRUE, raised |-> FALSE, ok |-> TRUE, idx |-> -1, reason |-> "none"]
    ELSE LET l == verify_link(prev, records[idx])
         IN  IF l.raised
             THEN [ran |-> TRUE, raised |-> TRUE, ok |-> FALSE, idx |-> idx - 1, reason |-> l.reason]
             ELSE IF ~l.ok
             THEN [ran |-> TRUE, raised |-> FALSE, ok |-> FALSE, idx |-> idx - 1, reason |-> l.reason]
             ELSE verify_chain_from(records, idx + 1, records[idx].hash)

\* indices reported are 0-based as in the source (enumerate)
verify_chain(records) == verify_chain_from(records, 1, Null)

(* ------------------------------ signing.py ------------------------------ *)

\* the hex spelling of the public key of private key k
PubHex(k) == Hex(<<ED_PUB, k>>)

\* Ed25519: the signature of msg under key k
EdSign(k, msg) == <<ED_SIG, k>> \o msg

\* VerifyKey(bytes.fromhex(pk)).verify(msg, bytes.fromhex(sig)) without the
\* try: TRUE when it returns, FALSE when anything in it raises
ed_verify(msg, signature_hex, public_key_hex) ==
    LET pkb == fromhex(public_key_hex)
        sb == fromhex(signature_hex)
    IN  /\ ~pkb.raised
        /\ ~sb.raised
        /\ Len(pkb.val) = 2
        /\ pkb.val[1] = ED_PUB
        /\ sb.val = EdSign(pkb.val[2], msg)

\* a seed is 0 (None), a key number (a 32-byte hex seed), or BadSeed (hex of
\* another length, which _coerce_seed refuses)
BadSeed == -1

\* sign_bytes that falls back to the demo scheme in strict mode too
sign_bytes_no_strict(data, private_key_hex, e, nokey) ==
    LET seed_hex == IF private_key_hex # 0 THEN private_key_hex ELSE e.seed
        k == IF seed_hex = 0 THEN nokey ELSE seed_hex
    IN  IF e.nacl \/ e.crypto
        THEN IF seed_hex = BadSeed THEN Raise("ValueError")
             ELSE Return([scheme |-> Txt(ED25519),
                          signature_hex |-> Hex(EdSign(k, data)),
                          public_key_hex |-> PubHex(k)])
        ELSE Return([scheme |-> Txt(SHA256_DEMO),
                     signature_hex |-> Hex(Hash(SHA256,
                         (IF seed_hex = 0 THEN <<DEMO_SECRET>> ELSE <<SEED_UTF8, seed_hex>>) \o data)),
                     public_key_hex |-> Null])

\* sign_bytes; nokey is the key generate() draws when there is no seed
sign_bytes(data, private_key_hex, e, nokey) ==
    LET seed_hex == IF private_key_hex # 0 THEN private_key_hex ELSE e.seed
        k == IF seed_hex = 0 THEN nokey ELSE seed_hex
    IN  IF e.nacl \/ e.crypto
        THEN IF seed_hex = BadSeed THEN Raise("ValueError")
             ELSE Return([scheme |-> Txt(ED25519),
                          signature_hex |-> Hex(EdSign(k, data)),
                          public_key_hex |-> PubHex(k)])
        ELSE IF e.strict THEN Raise("RuntimeError")
        ELSE Return([scheme |-> Txt(SHA256_DEMO),
                     signature_hex |-> Hex(Hash(SHA256,
                         (IF seed_hex = 0 THEN <<DEMO_SECRET>> ELSE <<SEED_UTF8, seed_hex>>) \o data)),
                     public_key_hex |-> Null])

\* verify_bytes that checks Ed25519 with PyNaCl only
verify_bytes_nacl_only(data, signature_hex, public_key_hex, scheme, e) ==
    IF ~IsStr(scheme) THEN Raise("AttributeError")
    ELSE IF Lower(scheme) = Txt(ED25519) /\ Truthy(public_key_hex)
    THEN IF e.nacl
         THEN Return(ed_verify(data, signature_hex, public_key_hex))
         ELSE Return(FALSE)
    ELSE IF Lower(scheme) = Txt(SHA256_DEMO)
    THEN Return(Hex(Hash(SHA256, <<DEMO_SECRET>> \o data)) = signature_hex)
    ELSE Return(FALSE)

\* verify_bytes: the value is a boolean, or the exception scheme.lower()
\* raises; AVSAFE_STRICT_CRYPTO is not read here
verify_bytes(data, signature_hex, public_key_hex, scheme, e) ==
    IF ~IsStr(scheme) THEN Raise("AttributeError")
    ELSE IF Lower(scheme) = Txt(ED25519) /\ Truthy(public_key_hex)
    THEN IF e.nacl \/ e.crypto
         THEN Return(ed_verify(data, signature_hex, public_key_hex))
         ELSE Return(FALSE)
    ELSE IF Lower(scheme) = Txt(SHA256_DEMO)
    THEN Return(Hex(Hash(SHA256, <<DEMO_SECRET>> \o data)) = signature_hex)
    ELSE Return(FALSE)

(* ------------------------------ cli/sim.py ------------------------------ *)

\* the chain-and-sign tail of gen_minute_record: no alg and no prev key in
\* the chain block, the signature over the bare canonical payload
gen_minute_record(payload, prev_hash, sign, e, nokey) ==
    LET h == chain_hash(prev_hash, payload, Txt(SHA256), CHAIN_DOMAIN)
        cj == canonical_json(payload)
        sb == sign_bytes(cj.val, 0, e, nokey)
        record == Rec(payload.pl, payload.dev, h.val, Absent, Absent)
    IN  IF h.raised THEN h
        ELSE IF ~sign THEN Return(record)
        ELSE IF sb.raised THEN sb
        ELSE Return([record EXCEPT !.scheme = sb.val.scheme,
                                   !.signature_hex = sb.val.signature_hex,
                                   !.public_key_hex = sb.val.public_key_hex])

(* ------------------------- report/render_html.py ------------------------ *)

\* chain.get(f) on  chain = rec.get("chain", {}) or {}
ChainGet(rec, f) == IF rec.chain = "obj" THEN Get(rec[f]) ELSE Null

LedgerStart(ms) ==
    [raised |-> FALSE, prev |-> Null, ok |-> TRUE, breaks |-> <<>>,
     total |-> 0, valid |-> 0, invalid |-> 0, missing |-> 0, unverified |-> 0,
     recs |-> ms]

\* the signature test inside the try of the loop body
ledger_sig_ok(rec) ==
    LET cj == canonical_json(PayloadOf(rec))
        pk == ChainGet(rec, "public_key_hex")
        sig == ChainGet(rec, "signature_hex")
    IN  /\ ~cj.raised
        /\ \/ ed_verify(<<SIGN_DOMAIN>> \o cj.val, sig, pk)
           \/ ed_verify(cj.val, sig, pk)

\* the chain test of the loop body without the comparison of the stored
\* hash with the recomputed one
ledger_break_no_compare(rec_hash, computed) ==
    ~Truthy(rec_hash) \/ computed.raised

\* if not rec_hash or not computed or rec_hash != computed
ledger_break(rec_hash, computed) ==
    ~Truthy(rec_hash) \/ computed.raised \/ rec_hash # computed.val

\* the tally that forgets the unverified counter
ledger_tally_drop_unverified(st, i, status) ==
    [st EXCEPT !.total = IF status = "missing" THEN @ ELSE @ + 1,
               !.valid = IF status = "valid" THEN @ + 1 ELSE @,
               !.invalid = IF status = "invalid" THEN @ + 1 ELSE @,
               !.missing = IF status = "missing" THEN @ + 1 ELSE @,
               !.recs[i].ann = status]

\* the counters and the record's '_sig_status' for one classified record
ledger_tally(st, i, status) ==
    [st EXCEPT !.total = IF status = "missing" THEN @ ELSE @ + 1,
               !.valid = IF status = "valid" THEN @ + 1 ELSE @,
               !.invalid = IF status = "invalid" THEN @ + 1 ELSE @,
               !.missing = IF status = "missing" THEN @ + 1 ELSE @,
               !.unverified = IF status = "unverified" THEN @ + 1 ELSE @,
               !.recs[i].ann = status]

\* the loop body that tracks the hash it computed, not the stored one
ledger_step_prev_computed(st, i, e) ==
    LET rec == st.recs[i]
        rec_hash == ChainGet(rec, "hash")
        computed == chain_hash(st.prev, PayloadOf(rec), Txt(SHA256), CHAIN_DOMAIN)
        brk == ledger_break(rec_hash, computed)
        st1 == [st EXCEPT !.ok = IF brk THEN FALSE ELSE @,
                          !.breaks = IF brk THEN Append(@, i - 1) ELSE @,
                          !.prev = IF computed.raised THEN Null ELSE computed.val,
                          !.recs[i].ann = "missing"]
        sch == ChainGet(rec, "scheme")
        signed == /\ Truthy(sch)
                  /\ Lower(sch) = Txt(ED25519)
                  /\ Truthy(ChainGet(rec, "signature_hex"))
                  /\ Truthy(ChainGet(rec, "public_key_hex"))
    IN  IF rec.shape # "obj" \/ rec.chain = "str"
        THEN [st EXCEPT !.raised = TRUE]
        ELSE IF Truthy(sch) /\ ~IsStr(sch)
        THEN [st1 EXCEPT !.raised = TRUE]
        ELSE IF ~signed
        THEN ledger_tally(st1, i, "missing")
        ELSE IF ~e.nacl
        THEN ledger_tally(st1, i, "unverified")
        ELSE IF ledger_sig_ok(rec)
        THEN ledger_tally(st1, i, "valid")
        ELSE ledger_tally(st1, i, "invalid")

\* one pass of the loop body on record i (1-based here, reported 0-based)
ledger_step(st, i, e) ==
    LET rec == st.recs[i]
        rec_hash == ChainGet(rec, "hash")
        computed == chain_hash(st.prev, PayloadOf(rec), Txt(SHA256), CHAIN_DOMAIN)
        brk == ledger_break(rec_hash, computed)
        st1 == [st EXCEPT !.ok = IF brk THEN FALSE ELSE @,
                          !.breaks = IF brk THEN Append(@, i - 1) ELSE @,
                          !.prev = rec_hash,
                          !.recs[i].ann = "missing"]
        sch == ChainGet(rec, "scheme")
        signed == /\ Truthy(sch)
                  /\ Lower(sch) = Txt(ED25519)
                  /\ Truthy(ChainGet(rec, "signature_hex"))
                  /\ Truthy(ChainGet(rec, "public_key_hex"))
    IN  IF rec.shape # "obj" \/ rec.chain = "str"
        THEN [st EXCEPT !.raised = TRUE]
        ELSE IF Truthy(sch) /\ ~IsStr(sch)
        THEN [st1 EXCEPT !.raised = TRUE]
        ELSE IF ~signed
        THEN ledger_tally(st1, i, "missing")
        ELSE IF ~e.nacl
        THEN ledger_tally(st1, i, "unverified")
        ELSE IF ledger_sig_ok(rec)
        THEN ledger_tally(st1, i, "valid")
        ELSE ledger_tally(st1, i, "invalid")

RECURSIVE ledger_loop(_, _, _)
ledger_loop(st, i, e) ==
    IF i > Len(st.recs) \/ st.raised THEN st
    ELSE ledger_loop(ledger_step(st, i, e), i + 1, e)

\* _verify_chain_and_signatures: the verdict, and in recs the list as the
\* call leaves it
verify_chain_and_signatures(ms, e) == ledger_loop(LedgerStart(ms), 1, e)

Verdict(st) ==
    [raised |-> st.raised, ok |-> st.ok, breaks |-> st.breaks, n |-> Len(st.recs),
     total |-> st.total, valid |-> st.valid, invalid |-> st.invalid,
     missing |-> st.missing, unverified |-> st.unverified]

(* ---------------------------- cloud/common.py --------------------------- *)

\* verify_minutes_chain_and_signatures; pubkey_map is the set of registered
\* device ids (its values are never read).  verify_bytes is called with two
\* arguments where it takes at least three: a TypeError.
RECURSIVE verify_minutes_from(_, _, _, _, _)
verify_minutes_from(ms, i, prev_hash, device_id, pubkey_map) ==
    IF i > Len(ms)
    THEN [raised |-> FALSE, exc |-> "", ok |-> TRUE, break_index |-> -1, count |-> Len(ms)]
    ELSE
    LET rec == ms[i]
        dev == IF rec.shape = "obj" /\ rec.dev # 0 THEN rec.dev ELSE device_id
        computed == chain_hash(prev_hash, PayloadOf(rec), Txt(SHA256), CHAIN_DOMAIN)
        chain_ok == ~computed.raised /\ computed.val = ChainGet(rec, "hash")
    IN  IF rec.shape # "obj"
        THEN [raised |-> TRUE, exc |-> "AttributeError", ok |-> FALSE, break_index |-> i - 1, count |-> Len(ms)]
        ELSE IF dev # 0 /\ dev \in pubkey_map
        THEN [raised |-> TRUE, exc |-> "TypeError", ok |-> FALSE, break_index |-> i - 1, count |-> Len(ms)]
        ELSE IF computed.raised
        THEN [raised |-> TRUE, exc |-> computed.exc, ok |-> FALSE, break_index |-> i - 1, count |-> Len(ms)]
        ELSE IF rec.chain \in {"null", "str"}
        THEN [raised |-> TRUE, exc |-> "AttributeError", ok |-> FALSE, break_index |-> i - 1, count |-> Len(ms)]
        ELSE IF ~chain_ok \/ ~Truthy(ChainGet(rec, "hash"))
        THEN [raised |-> FALSE, exc |-> "", ok |-> FALSE, break_index |-> i - 1, count |-> Len(ms)]
        ELSE verify_minutes_from(ms, i + 1, ChainGet(rec, "hash"), dev, pubkey_map)

verify_minutes_chain_and_signatures(ms, pubkey_map) ==
    verify_minutes_from(ms, 1, Null, 0, pubkey_map)

(* ------------------------------ the state ------------------------------ *)

NoVc == [ran |-> FALSE, raised |-> FALSE, ok |-> FALSE, idx |-> -1, reason |-> "none"]

NoTamper == [kind |-> "none", at |-> 0]

LastHash(ms) == IF Len(ms) = 0 THEN Null ELSE ms[Len(ms)].hash

Envs == [nacl : BOOLEAN, crypto : BOOLEAN, strict : BOOLEAN, seed : {0} \cup Keys, alg : {Txt(SHA256), Txt(BLAKE2B)}]

\* no call of hash_chain.py made yet
NoCall == [op |-> "none", ps |-> <<>>, hs |-> <<>>]

HashIdle == hc = NoCall

\* the evaluator not started: no minutes file, no profile, no result
EvalIdle ==
    /\ ev_minutes = <<>>
    /\ profile = <<>>
    /\ out = <<>>

\* the server as the import of server/app.py leaves it, on an empty DB
ServerIdle ==
    /\ IDEMP_CACHE = {}
    /\ db = {}
    /\ SESSION_LAST_RESULTS = {}
    /\ inflight = {}
    /\ responses = <<>>

\* no curve given to rules/ieee_1789.py yet
CurveIdle ==
    /\ curve = <<>>
    /\ normalized = <<>>
    /\ allowance = <<>>

InitCommon ==
    /\ minutes = <<>>
    /\ orig = <<>>
    /\ tamper = NoTamper
    /\ vc = NoVc
    /\ verdicts = <<>>
    /\ cloud = <<>>
    /\ sgn = <<>>
    /\ vfy = <<>>

\* the backends and settings of a default installation
DefaultEnv == [nacl |-> TRUE, crypto |-> TRUE, strict |-> FALSE, seed |-> 0, alg |-> Txt(SHA256)]

(* ----------------- building a chain with make_record ------------------- *)

MakeRecord(p) ==
    /\ tamper = NoTamper
    /\ ~vc.ran
    /\ Len(minutes) < MaxLen
    /\ LET r == make_record([pl |-> p, dev |-> 0, ann |-> "none"], LastHash(minutes), env.alg)
       IN  /\ ~r.raised
           /\ minutes' = Append(minutes, r.val)
           /\ orig' = Append(orig, r.val)
    /\ UNCHANGED <<tamper, env, vc, verdicts, cloud, sgn, vfy, laterVars>>

(* ------------------------------ tampering ------------------------------ *)

RECURSIVE Keep(_, _, _)
Keep(ms, S, i) ==
    IF i > Len(ms) THEN <<>>
    ELSE (IF i \in S THEN <<>> ELSE <<ms[i]>>) \o Keep(ms, S, i + 1)

\* delete the records at the positions S
DeleteRecords(S) ==
    /\ tamper = NoTamper
    /\ ~vc.ran
    /\ S # {}
    /\ S # 1 .. Len(minutes)
    /\ minutes' = Keep(minutes, S, 1)
    /\ tamper' = [kind |-> IF \E n \in 0 .. Len(minutes) : S = (n + 1) .. Len(minutes)
                           THEN "delete_trailing" ELSE "delete",
                  at |-> 0]
    /\ UNCHANGED <<orig, env, vc, verdicts, cloud, sgn, vfy, laterVars>>

InsertAt(ms, j, r) == SubSeq(ms, 1, j - 1) \o <<r>> \o SubSeq(ms, j, Len(ms))

\* the records an editor of the file can put in: one chained by make_record
\* on the hash before the insertion point, one chained on nothing, or a
\* copy of a record of the chain
Insertable(ms, j) ==
    {make_record([pl |-> p, dev |-> 0, ann |-> "none"], prev, env.alg).val :
        p \in Payloads, prev \in {Null, IF j = 1 THEN Null ELSE ms[j - 1].hash}}
    \cup {ms[i] : i \in 1 .. Len(ms)}

\* the records make_record chains on the last hash of the list
Chained(ms) ==
    {make_record([pl |-> p, dev |-> 0, ann |-> "none"], LastHash(ms), env.alg).val : p \in Payloads}

InsertRecord(j, r) ==
    /\ tamper = NoTamper
    /\ ~vc.ran
    /\ Len(minutes) >= 1
    /\ j \in 1 .. Len(minutes) + 1
    /\ r \in Insertable(minutes, j)
    /\ minutes' = InsertAt(minutes, j, r)
    /\ tamper' = [kind |-> IF j = Len(minutes) + 1 /\ r \in Chained(minutes)
                           THEN "append_chained" ELSE "insert",
                  at |-> j - 1]
    /\ UNCHANGED <<orig, env, vc, verdicts, cloud, sgn, vfy, laterVars>>

Perms(n) == {f \in [1 .. n -> 1 .. n] : \A i, j \in 1 .. n : f[i] = f[j] => i = j}

Reorder(f) ==
    /\ tamper = NoTamper
    /\ ~vc.ran
    /\ \E i \in 1 .. Len(minutes) : f[i] # i
    /\ minutes' = [i \in 1 .. Len(minutes) |-> minutes[f[i]]]
    /\ tamper' = [kind |-> "reorder", at |-> 0]
    /\ UNCHANGED <<orig, env, vc, verdicts, cloud, sgn, vfy, laterVars>>

\* change a payload field of record k, stored hashes left as they are
AlterPayload(k, p) ==
    /\ tamper = NoTamper
    /\ ~vc.ran
    /\ k \in 1 .. Len(minutes)
    /\ p # minutes[k].pl
    /\ minutes' = [minutes EXCEPT ![k].pl = p]
    /\ tamper' = [kind |-> "alter_payload", at |-> k - 1]
    /\ UNCHANGED <<orig, env, vc, verdicts, cloud, sgn, vfy, laterVars>>

\* the values an editor can put in chain.prev: null, a hash of no record,
\* the stored hash of a record of the list
PrevEdits(ms) == {Null, Hex(<<JUNK>>)} \cup {ms[i].hash : i \in 1 .. Len(ms)}

\* only record k's chain.prev is altered, its stored hash left as it was
AlterPrev(k, v) ==
    /\ tamper = NoTamper
    /\ ~vc.ran
    /\ k \in 1 .. Len(minutes)
    /\ v # minutes[k].prev
    /\ minutes' = [minutes EXCEPT ![k].prev = v]
    /\ tamper' = [kind |-> "alter_prev", at |-> k - 1]
    /\ UNCHANGED <<orig, env, vc, verdicts, cloud, sgn, vfy, laterVars>>

(* ----------------------------- verification ----------------------------- *)

VerifyChain ==
    /\ ~vc.ran
    /\ vc' = verify_chain(minutes)
    /\ UNCHANGED <<minutes, orig, tamper, env, verdicts, cloud, sgn, vfy, laterVars>>

(* ------------------- the ledger: produce, edit, verify ------------------ *)

MaxCalls == 2

\* the device that produces the chain, and the key registered for it
DEVICE == 1

REGISTERED_KEY == 1

\* generate() draws a key nobody registered, a new one for every record
EphKey(n) == NKeys + n

GenMinuteRecord(p, sign) ==
    /\ tamper = NoTamper
    /\ ~vc.ran /\ verdicts = <<>> /\ cloud = <<>>
    /\ Len(minutes) < MaxLen
    /\ LET r == gen_minute_record([pl |-> p, dev |-> DEVICE, ann |-> "none"],
                                  LastHash(minutes), sign, env, EphKey(Len(minutes) + 1))
       IN  /\ ~r.raised
           /\ minutes' = Append(minutes, r.val)
           /\ orig' = Append(orig, r.val)
    /\ UNCHANGED <<tamper, env, vc, verdicts, cloud, sgn, vfy, laterVars>>

Untouched == tamper = NoTamper /\ ~vc.ran /\ verdicts = <<>> /\ cloud = <<>>

HashEdits(rec) ==
    {Hex(<<JUNK>>), HexU(rec.hash.v), Txt(JUNK), Num(JUNK), Null, Absent, Hex(<<>>)}

\* only record k's stored chain.hash is altered
AlterHash(k, v) ==
    /\ Untouched
    /\ k \in 1 .. Len(minutes)
    /\ v # minutes[k].hash
    /\ minutes' = [minutes EXCEPT ![k].hash = v]
    /\ tamper' = [kind |-> "alter_hash", at |-> k - 1]
    /\ UNCHANGED <<orig, env, vc, verdicts, cloud, sgn, vfy, laterVars>>

\* record k signed again with another key, that key's public key put in
\* its chain block
Resign(k, key) ==
    /\ Untouched
    /\ k \in 1 .. Len(minutes)
    /\ key # REGISTERED_KEY
    /\ LET cj == canonical_json(PayloadOf(minutes[k]))
       IN  minutes' = [minutes EXCEPT ![k].scheme = Txt(ED25519),
                                      ![k].signature_hex = Hex(EdSign(key, cj.val)),
                                      ![k].public_key_hex = PubHex(key)]
    /\ tamper' = [kind |-> "resign", at |-> k - 1]
    /\ UNCHANGED <<orig, env, vc, verdicts, cloud, sgn, vfy, laterVars>>

MalformKinds ==
    {"rec_num", "rec_list", "chain_absent", "chain_null", "chain_str",
     "alg_unknown", "alg_null", "scheme_null", "scheme_num", "scheme_other",
     "sig_nonhex", "pk_nonhex", "pk_null"}

Malformed(rec, kind) ==
    CASE kind = "rec_num" -> [rec EXCEPT !.shape = "num"]
      [] kind = "rec_list" -> [rec EXCEPT !.shape = "list"]
      [] kind = "chain_absent" -> [rec EXCEPT !.chain = "absent"]
      [] kind = "chain_null" -> [rec EXCEPT !.chain = "null"]
      [] kind = "chain_str" -> [rec EXCEPT !.chain = "str"]
      [] kind = "alg_unknown" -> [rec EXCEPT !.alg = Txt(OTHER_ALG)]
      [] kind = "alg_null" -> [rec EXCEPT !.alg = Null]
      [] kind = "scheme_null" -> [rec EXCEPT !.scheme = Null]
      [] kind = "scheme_num" -> [rec EXCEPT !.scheme = Num(JUNK)]
      [] kind = "scheme_other" -> [rec EXCEPT !.scheme = Txt(OTHER_SCHEME)]
      [] kind = "sig_nonhex" -> [rec EXCEPT !.signature_hex = Txt(JUNK)]
      [] kind = "pk_nonhex" -> [rec EXCEPT !.public_key_hex = Txt(JUNK)]
      [] kind = "pk_null" -> [rec EXCEPT !.public_key_hex = Null]

\* line k of the JSONL file parses to a malformed value
Malform(k, kind) ==
    /\ Untouched
    /\ k \in 1 .. Len(minutes)
    /\ minutes' = [minutes EXCEPT ![k] = Malformed(@, kind)]
    /\ tamper' = [kind |-> "malform", at |-> k - 1]
    /\ UNCHANGED <<orig, env, vc, verdicts, cloud, sgn, vfy, laterVars>>

\* _verify_chain_and_signatures(minutes): the records keep the
\* '_sig_status' the call writes into them
VerifyLedger ==
    /\ ~vc.ran /\ cloud = <<>>
    /\ Len(verdicts) < MaxCalls
    /\ (verdicts # <<>> => ~verdicts[Len(verdicts)].raised)
    /\ LET st == verify_chain_and_signatures(minutes, env)
       IN  /\ verdicts' = Append(verdicts, Verdict(st))
           /\ minutes' = st.recs
    /\ UNCHANGED <<orig, tamper, env, vc, cloud, sgn, vfy, laterVars>>

\* verify_chain(minutes) on the list as loaded
VerifyChainLedger ==
    /\ ~vc.ran /\ verdicts = <<>> /\ cloud = <<>>
    /\ vc' = verify_chain(minutes)
    /\ UNCHANGED <<minutes, orig, tamper, env, verdicts, cloud, sgn, vfy, laterVars>>

\* verify_minutes_chain_and_signatures(minutes, pubkey_map) on the list as
\* loaded, the device registered or not
VerifyMinutes(pubkey_map) ==
    /\ ~vc.ran /\ verdicts = <<>> /\ cloud = <<>>
    /\ cloud' = <<verify_minutes_chain_and_signatures(minutes, pubkey_map)>>
    /\ UNCHANGED <<minutes, orig, tamper, env, vc, verdicts, sgn, vfy, laterVars>>

InitLedger ==
    /\ InitCommon
    /\ HashIdle /\ EvalIdle /\ ServerIdle /\ CurveIdle
    /\ env \in {e \in Envs : e.alg = Txt(SHA256) /\ e.seed \in {0, REGISTERED_KEY}}

NextLedger ==
    \/ \E sign \in BOOLEAN : GenMinuteRecord(1 + (Len(minutes) % NPayloads), sign)
    \/ \E k \in 1 .. Len(minutes) : \E v \in HashEdits(minutes[k]) : AlterHash(k, v)
    \/ \E k \in 1 .. Len(minutes) : \E key \in Keys : Resign(k, key)
    \/ \E k \in 1 .. Len(minutes) : \E kind \in MalformKinds : Malform(k, kind)
    \/ VerifyLedger
    \/ VerifyChainLedger
    \/ \E pubkey_map \in {{}, {DEVICE}} : VerifyMinutes(pubkey_map)

SpecLedger == InitLedger /\ [][NextLedger]_vars

(* ------------ the report's verifier on chains of make_record ------------ *)

InitReport ==
    /\ InitCommon
    /\ HashIdle /\ EvalIdle /\ ServerIdle /\ CurveIdle
    /\ env \in {e \in Envs : e.nacl /\ e.crypto /\ ~e.strict /\ e.seed = 0}

NextReport ==
    \/ \E p \in Payloads : Untouched /\ MakeRecord(p)
    \/ \E k \in 1 .. Len(minutes) : \E p \in Payloads \cup {NaNPayload} :
           Untouched /\ AlterPayload(k, p)
    \/ VerifyLedger
    \/ VerifyChainLedger

SpecReport == InitReport /\ [][NextReport]_vars

(* --------------------- calls of sign_bytes, verify_bytes ----------------- *)

NMsgs == 2

\* the byte strings signed and verified
Msgs == {<<200 + m>> : m \in 1 .. NMsgs}

Seeds == {0, BadSeed} \cup Keys

\* sign_bytes(data, private_key_hex) under the process environment
SignBytes(data, private_key_hex, nokey) ==
    /\ sgn = <<>> /\ vfy = <<>>
    /\ sgn' = <<[data |-> data, private_key_hex |-> private_key_hex,
                 res |-> sign_bytes(data, private_key_hex, env, nokey)]>>
    /\ UNCHANGED <<minutes, orig, tamper, env, vc, verdicts, cloud, vfy, laterVars>>

\* the signatures a caller may hand to verify_bytes
SigInputs ==
    {Hex(Hash(SHA256, <<DEMO_SECRET>> \o m)) : m \in Msgs}
    \cup {Hex(EdSign(REGISTERED_KEY, m)) : m \in Msgs}
    \cup {Txt(JUNK), Num(JUNK), Null}
    \cup (IF sgn # <<>> /\ ~sgn[1].res.raised THEN {sgn[1].res.val.signature_hex} ELSE {})

KeyInputs ==
    {Null, Txt(JUNK), Hex(<<JUNK>>), PubHex(REGISTERED_KEY)}
    \cup (IF sgn # <<>> /\ ~sgn[1].res.raised THEN {sgn[1].res.val.public_key_hex} ELSE {})

SchemeInputs == {Txt(ED25519), Txt(SHA256_DEMO), Txt(OTHER_SCHEME), Null, Num(JUNK)}

\* verify_bytes(data, signature_hex, public_key_hex, scheme)
VerifyBytes(data, signature_hex, public_key_hex, scheme) ==
    /\ vfy = <<>>
    /\ vfy' = <<[data |-> data, signature_hex |-> signature_hex,
                 public_key_hex |-> public_key_hex, scheme |-> scheme,
                 res |-> verify_bytes(data, signature_hex, public_key_hex, scheme, env)]>>
    /\ UNCHANGED <<minutes, orig, tamper, env, vc, verdicts, cloud, sgn, laterVars>>

InitSign ==
    /\ InitCommon
    /\ HashIdle /\ EvalIdle /\ ServerIdle /\ CurveIdle
    /\ env \in [nacl : BOOLEAN, crypto : BOOLEAN, strict : BOOLEAN, seed : Seeds, alg : {Txt(SHA256)}]

NextSign ==
    \/ \E data \in Msgs : \E k \in Seeds : \E nokey \in {EphKey(1), EphKey(2)} :
           SignBytes(data, k, nokey)
    \/ \E data \in Msgs : \E sig \in SigInputs : \E pk \in KeyInputs : \E sch \in SchemeInputs :
           VerifyBytes(data, sig, pk, sch)

SpecSign == InitSign /\ [][NextSign]_vars

InitChain ==
    /\ InitCommon
    /\ HashIdle /\ EvalIdle /\ ServerIdle /\ CurveIdle
    /\ env \in {e \in Envs : e.nacl /\ e.crypto /\ ~e.strict /\ e.seed = 0}

NextChain ==
    \/ \E p \in Payloads : MakeRecord(p)
    \/ \E S \in SUBSET (1 .. Len(minutes)) : DeleteRecords(S)
    \/ \E j \in 1 .. Len(minutes) + 1 : \E r \in Insertable(minutes, j) : InsertRecord(j, r)
    \/ \E f \in Perms(Len(minutes)) : Reorder(f)
    \/ \E k \in 1 .. Len(minutes) : \E p \in Payloads \cup {NaNPayload} : AlterPayload(k, p)
    \/ \E k \in 1 .. Len(minutes) : \E v \in PrevEdits(minutes) : AlterPrev(k, v)
    \/ VerifyChain

SpecChain == InitChain /\ [][NextChain]_vars

(* ------------------ direct calls of integrity/hash_chain.py ------------- *)

\* {"a": v, "b": 0}
FlatObj(v) == JObj(<<[v |-> JNum(v), k |-> 1], [v |-> JNum(0), k |-> 2]>>)

\* {"a": {"a": v, "b": 0}, "b": 0}
NestedObj(v) == JObj(<<[v |-> FlatObj(v), k |-> 1], [v |-> JNum(0), k |-> 2]>>)

\* {"a": [{"a": v, "b": 0}], "b": 0}
ArrayObj(v) == JObj(<<[v |-> JArr(<<FlatObj(v)>>), k |-> 1], [v |-> JNum(0), k |-> 2]>>)

\* {"a": NaN}
NaNObj == JObj(<<[v |-> JNaN, k |-> 1]>>)

JsonPayloads ==
    {FlatObj(v) : v \in Payloads} \cup {NestedObj(v) : v \in Payloads}
    \cup {ArrayObj(v) : v \in Payloads} \cup {NaNObj}

\* the same keys and values with the members of every object, at every
\* nesting level, inserted in another order
\* the members kids in the order f, member j's value replaced by c[j]
RECURSIVE Rearranged(_, _, _, _)
Rearranged(kids, f, c, i) ==
    IF i > Len(kids) THEN <<>>
    ELSE <<[v |-> c[f[i]], k |-> kids[f[i]].k]>> \o Rearranged(kids, f, c, i + 1)

RECURSIVE KeyPerms(_)
KeyPerms(obj) ==
    IF obj.kids = <<>> THEN {obj}
    ELSE LET n == Len(obj.kids)
             choices == {c \in [1 .. n -> UNION {KeyPerms(obj.kids[i].v) : i \in 1 .. n}] :
                            \A i \in 1 .. n : c[i] \in KeyPerms(obj.kids[i].v)}
             orders == IF obj.t = "obj" THEN Perms(n) ELSE {[i \in 1 .. n |-> i]}
         IN  {[t |-> obj.t, n |-> obj.n, kids |-> Rearranged(obj.kids, f, c, 1)] :
                  f \in orders, c \in choices}

\* h0 = chain_hash(None, p0), hj = chain_hash(hj-1, pj): one more link
ChainAppend(P) ==
    /\ hc.op \in {"none", "chain"}
    /\ Len(hc.ps) < MaxLen
    /\ LET prev == IF hc.hs = <<>> THEN Null ELSE hc.hs[Len(hc.hs)]
           h == chain_hash_bytes(prev, json_dumps(P), env.alg, CHAIN_DOMAIN)
       IN  /\ ~h.raised
           /\ hc' = [op |-> "chain", ps |-> Append(hc.ps, P), hs |-> Append(hc.hs, h.val)]
    /\ UNCHANGED <<ledgerVars, evalVars, serverVars, curveVars>>

\* the hashes of the chain over the payloads ps from position i on
RECURSIVE ChainAll(_, _, _, _)
ChainAll(ps, i, prev, alg) ==
    IF i > Len(ps) THEN <<>>
    ELSE LET h == chain_hash_bytes(prev, json_dumps(ps[i]), alg, CHAIN_DOMAIN).val
         IN  <<h>> \o ChainAll(ps, i + 1, h, alg)

\* payload i replaced by one with another canonical form, the chain
\* computed again from the start
TamperRecompute(i, P) ==
    /\ hc.op = "chain"
    /\ i \in 1 .. Len(hc.ps)
    /\ ~json_dumps(P).raised
    /\ json_dumps(P) # json_dumps(hc.ps[i])
    /\ LET ps2 == [hc.ps EXCEPT ![i] = P]
       IN  hc' = [op |-> "tamper", at |-> i, ps |-> hc.ps, hs |-> hc.hs,
                  ps2 |-> ps2, hs2 |-> ChainAll(ps2, 1, Null, env.alg)]
    /\ UNCHANGED <<ledgerVars, evalVars, serverVars, curveVars>>

\* canonical_json and chain_hash on a payload and on a key permutation of it
CanonicalJson(P, Q, prev) ==
    /\ hc.op = "none"
    /\ hc' = [op |-> "canon", P |-> P, Q |-> Q, prev |-> prev,
              cjP |-> json_dumps(P), cjQ |-> json_dumps(Q),
              hP |-> chain_hash_bytes(prev, json_dumps(P), env.alg, CHAIN_DOMAIN),
              hQ |-> chain_hash_bytes(prev, json_dumps(Q), env.alg, CHAIN_DOMAIN)]
    /\ UNCHANGED <<ledgerVars, evalVars, serverVars, curveVars>>

\* chain_hash(prev_hex, payload, alg=alg)
ChainHash(prev_hex, P, alg) ==
    /\ hc.op = "none"
    /\ hc' = [op |-> "chain_hash", prev |-> prev_hex, P |-> P, alg |-> alg,
              cj |-> json_dumps(P),
              h |-> chain_hash_bytes(prev_hex, json_dumps(P), alg, CHAIN_DOMAIN)]
    /\ UNCHANGED <<ledgerVars, evalVars, serverVars, curveVars>>

\* the payload dicts handed to make_record: with and without a 'chain' key
RecordPayloads ==
    {[pl |-> p, dev |-> d, ann |-> "none"] : p \in Payloads \cup {NaNPayload}, d \in {0, DEVICE}}
    \cup {[pl |-> p, dev |-> 0, ann |-> "none", chain |-> c] : p \in Payloads, c \in {"obj", "null"}}

\* make_record(payload, prev_hex, alg=alg)
MakeRecordCall(payload, prev_hex, alg) ==
    /\ hc.op = "none"
    /\ hc' = [op |-> "make_record", payload |-> payload, prev |-> prev_hex, alg |-> alg,
              res |-> make_record(payload, prev_hex, alg)]
    /\ UNCHANGED <<ledgerVars, evalVars, serverVars, curveVars>>

\* None, the empty string, a digest, text that is not hex
PrevInputs == {Null, Hex(<<>>), Hex(Hash(SHA256, <<JUNK>>)), Txt(JUNK)}

AlgInputs == {Txt(SHA256), Txt(BLAKE2B), Txt(OTHER_ALG)}

InitHash ==
    /\ InitCommon
    /\ HashIdle /\ EvalIdle /\ ServerIdle /\ CurveIdle
    /\ env \in {e \in Envs : e.nacl /\ e.crypto /\ ~e.strict /\ e.seed = 0}

NextHash ==
    \/ \E P \in {FlatObj(v) : v \in Payloads} \cup {NestedObj(1)} : ChainAppend(P)
    \/ \E i \in 1 .. MaxLen : \E P \in JsonPayloads : TamperRecompute(i, P)
    \/ \E P \in JsonPayloads : \E Q \in KeyPerms(P) : \E prev \in PrevInputs :
           CanonicalJson(P, Q, prev)
    \/ \E prev \in PrevInputs : \E P \in JsonPayloads : \E alg \in AlgInputs :
           ChainHash(prev, P, alg)
    \/ \E payload \in RecordPayloads : \E prev \in PrevInputs : \E alg \in AlgInputs :
           MakeRecordCall(payload, prev, alg)

SpecHash == InitHash /\ [][NextHash]_vars

(* --------------------------- rules/ieee_1789.py ------------------------- *)
(* Floats are exact fractions [n |-> numerator, d |-> denominator], d > 0.  *)

R(n, d) == [n |-> n, d |-> d]

RLess(x, y) == x.n * y.d < y.n * x.d

RLeq(x, y) == x.n * y.d <= y.n * x.d

REq(x, y) == x.n * y.d = y.n * x.d

RMax(x, y) == IF RLess(x, y) THEN y ELSE x

RMin(x, y) == IF RLess(y, x) THEN y ELSE x

RAdd(x, y) == R(x.n * y.d + y.n * x.d, x.d * y.d)

\* x / y for a float x and a number y: ZeroDivisionError when y is 0
Div(x, y) == IF y = 0 THEN Raise("ZeroDivisionError") ELSE Return(R(x.n, x.d * y))

\* an optional float: None, or a fraction
NoneF == [x |-> R(0, 1), some |-> FALSE]

Some(x) == [x |-> x, some |-> TRUE]

\* _clip(value, lo, hi)
clip(value, lo, hi) ==
    LET v1 == IF lo.some THEN RMax(lo.x, value) ELSE value
    IN  IF hi.some THEN RMin(hi.x, v1) ELSE v1

\* a segment of the curve: its bounds, which of the two forms its keys give
\* ("ab", "max", "both", "none") and whether float() accepts its fields
Seg(f_min, f_max, form, a, b, max_percent) ==
    [b |-> b, a |-> a, ok |-> TRUE, f_min |-> f_min, f_max |-> f_max, form |-> form,
     max_percent |-> max_percent]

\* the segments float() accepts, in the order given
RECURSIVE WellFormed(_)
WellFormed(segs) ==
    IF segs = <<>> THEN <<>>
    ELSE (IF Head(segs).ok THEN <<Head(segs)>> ELSE <<>>) \o WellFormed(Tail(segs))

\* the segments left in the order given
RECURSIVE SortSegs_given_order(_)
SortSegs_given_order(segs) ==
    IF segs = <<>> THEN <<>>
    ELSE <<Head(segs)>> \o SortSegs_given_order(Tail(segs))

\* segs.sort(key=f_min): ascending, equal keys in their given order
RECURSIVE SortSegs(_)
SortSegs(segs) ==
    IF segs = <<>> THEN <<>>
    ELSE LET m == CHOOSE i \in 1 .. Len(segs) :
                      /\ \A j \in 1 .. Len(segs) : segs[i].f_min <= segs[j].f_min
                      /\ \A j \in 1 .. i - 1 : segs[j].f_min # segs[i].f_min
         IN  <<segs[m]>> \o SortSegs(SubSeq(segs, 1, m - 1) \o SubSeq(segs, m + 1, Len(segs)))

\* normalize_curve_config: default 1.0 when missing, malformed segments
\* dropped, the rest sorted by f_min, clip_allowed_range kept when it is a
\* pair of numbers
normalize_curve_config(cfg) ==
    [default |-> IF cfg.default.some THEN cfg.default ELSE Some(R(1, 1)),
     segments |-> SortSegs(WellFormed(cfg.segments)),
     clip_allowed_range |-> cfg.clip_allowed_range]

\* the first segment of segs, from position i on, that contains f_hz
RECURSIVE FirstMatch(_, _, _)
FirstMatch(segs, f_hz, i) ==
    IF i > Len(segs) THEN 0
    ELSE IF segs[i].f_min <= f_hz /\ f_hz <= segs[i].f_max THEN i
    ELSE FirstMatch(segs, f_hz, i + 1)

\* allowed_mod_percent(f_hz, cfg) for a whole number of Hz (so that
\* max(f_hz, 1e-6) is f_hz when f_hz > 0)
allowed_mod_percent(f_hz, cfg) ==
    IF f_hz <= 0
    THEN IF cfg.default.some THEN cfg.default.x ELSE R(1, 1)
    ELSE LET ncfg == normalize_curve_config(cfg)
             m == FirstMatch(ncfg.segments, f_hz, 1)
             seg == ncfg.segments[m]
             allowed == IF m = 0 THEN ncfg.default.x
                        ELSE IF seg.form \in {"ab", "both"} THEN RAdd(seg.a, R(seg.b.n, seg.b.d * f_hz))
                        ELSE IF seg.form = "max" THEN seg.max_percent
                        ELSE ncfg.default.x
             clipped == IF ncfg.clip_allowed_range.some
                        THEN clip(allowed, Some(ncfg.clip_allowed_range.lo), Some(ncfg.clip_allowed_range.hi))
                        ELSE allowed
         IN  RMax(R(0, 1), clipped)

(* -------------------- direct calls of rules/ieee_1789.py ---------------- *)

MaxSegs == 2

\* the segments of a configuration: the first two bands of the example
\* curve (they share the frequency 120), a constant cap that overlaps both,
\* a band with neither form, a band float() refuses, a steep band
SegInputs ==
    {Seg(80, 120, "ab", R(1, 10), R(600, 1), R(0, 1)),
     Seg(120, 200, "ab", R(3, 10), R(480, 1), R(0, 1)),
     Seg(100, 300, "max", R(0, 1), R(0, 1), R(8, 1)),
     Seg(80, 120, "none", R(0, 1), R(0, 1), R(0, 1)),
     [Seg(40, 60, "max", R(0, 1), R(0, 1), R(9, 1)) EXCEPT !.ok = FALSE],
     Seg(1, 100, "ab", R(0, 1), R(1000, 1), R(0, 1))}

\* the lists of up to n distinct segments, in every order
RECURSIVE SegLists(_)
SegLists(n) ==
    IF n = 0 THEN {<<>>}
    ELSE SegLists(n - 1) \cup
         {l \o <<sg>> : l \in {x \in SegLists(n - 1) : Len(x) = n - 1},
                         sg \in SegInputs}

Distinct(l) == \A i, j \in 1 .. Len(l) : l[i] = l[j] => i = j

DefaultInputs == {NoneF, Some(R(1, 1)), Some(R(-1, 1)), Some(R(200, 1))}

ClipInputs ==
    {[some |-> FALSE, lo |-> R(0, 1), hi |-> R(0, 1)],
     [some |-> TRUE, lo |-> R(0, 1), hi |-> R(100, 1)],
     [some |-> TRUE, lo |-> R(0, 1), hi |-> R(10, 1)]}

CurveInputs ==
    {[default |-> d, segments |-> l, clip_allowed_range |-> c] :
        d \in DefaultInputs, l \in {x \in SegLists(MaxSegs) : Distinct(x)}, c \in ClipInputs}

FreqInputs == {-50, 0, 5, 50, 100, 120, 150, 250}

\* normalize_curve_config(cfg)
NormalizeCurveConfig ==
    /\ normalized = <<>>
    /\ normalized' = <<normalize_curve_config(curve)>>
    /\ UNCHANGED <<ledgerVars, hashVars, evalVars, serverVars, curve, allowance>>

\* allowed_mod_percent(f_hz, cfg)
AllowedModPercent(f_hz) ==
    /\ allowance = <<>>
    /\ allowance' = <<[f_hz |-> f_hz, val |-> allowed_mod_percent(f_hz, curve)]>>
    /\ UNCHANGED <<ledgerVars, hashVars, evalVars, serverVars, curve, normalized>>

InitCurve ==
    /\ InitCommon
    /\ env = DefaultEnv
    /\ HashIdle /\ EvalIdle /\ ServerIdle
    /\ curve \in CurveInputs
    /\ normalized = <<>>
    /\ allowance = <<>>

NextCurve ==
    \/ NormalizeCurveConfig
    \/ \E f_hz \in FreqInputs : AllowedModPercent(f_hz)

SpecCurve == InitCurve /\ [][NextCurve]_vars

(* --------------------------- rules/evaluator.py ------------------------- *)

\* a field of a minute as json.loads gives it: missing, null, a string,
\* true / false, or a number (x: its value as a fraction)
VAbsent == [t |-> "absent", x |-> R(0, 1)]

VNull == [t |-> "null", x |-> R(0, 1)]

VStr == [t |-> "str", x |-> R(0, 1)]

VBool(b) == [t |-> "bool", x |-> R(IF b THEN 1 ELSE 0, 1)]

VNum(n, d) == [t |-> "num", x |-> R(n, d)]

\* isinstance(v, (int, float)): bool is a subclass of int
IsNumber(v) == v.t \in {"num", "bool"}

\* a minute: the shape of its 'audio' and 'light' values ("obj", "absent",
\* "null", or "str" for a non-empty string) and the three fields read
Minute(audio, laeq_db, light, tlm_freq_hz, tlm_mod_percent) ==
    [audio |-> audio, laeq_db |-> laeq_db, light |-> light,
     tlm_freq_hz |-> tlm_freq_hz, tlm_mod_percent |-> tlm_mod_percent]

\* (m.get(section) or {}).get(field): None unless the section is an object
SectionGet(shape, v) == IF shape = "obj" /\ v.t # "absent" THEN v ELSE VNull

NoLocale == ""

\* str(raw).strip().casefold()
casefold(raw) ==
    CASE raw = " Munich " -> "munich"
      [] raw = "MUC" -> "muc"
      [] OTHER -> raw

\* _get_section(profile, "locales").get("aliases") or {}: a RulesProfile
\* has no 'locales' attribute and is not a Mapping
Aliases(prof) == IF prof.kind = "mapping" THEN prof.aliases ELSE <<>>

\* _normalize_locale
normalize_locale(raw_locale, prof) ==
    IF raw_locale = NoLocale THEN NoLocale
    ELSE LET token == casefold(raw_locale)
         IN  IF token \in DOMAIN prof.laeq_limits_db THEN token
             ELSE IF token \in DOMAIN Aliases(prof) THEN casefold(Aliases(prof)[token])
             ELSE token

\* 100.0 * count / total with no guard on total
pct_of_unguarded(count, total) == Div(R(100 * count, 1), total)

\* 100.0 * count / max(total, 1)
pct_of(count, total) == Div(R(100 * count, 1), IF total > 1 THEN total ELSE 1)

\* the numeric sound levels of the minutes, in order
RECURSIVE laeq_vals(_)
laeq_vals(ms) ==
    IF ms = <<>> THEN <<>>
    ELSE LET v == SectionGet(Head(ms).audio, Head(ms).laeq_db)
         IN  (IF IsNumber(v) THEN <<v.x>> ELSE <<>>) \o laeq_vals(Tail(ms))

\* the count that takes a level equal to the limit as over it
RECURSIVE CountOver_inclusive(_, _)
CountOver_inclusive(vals, limit) ==
    IF vals = <<>> THEN 0
    ELSE (IF RLeq(R(limit, 1), Head(vals)) THEN 1 ELSE 0) + CountOver_inclusive(Tail(vals), limit)

\* sum(1 for x in laeq_vals if x > float(limit))
RECURSIVE CountOver(_, _)
CountOver(vals, limit) ==
    IF vals = <<>> THEN 0
    ELSE (IF RLess(R(limit, 1), Head(vals)) THEN 1 ELSE 0) + CountOver(Tail(vals), limit)

RECURSIVE SumOf(_)
SumOf(vals) == IF vals = <<>> THEN R(0, 1) ELSE RAdd(Head(vals), SumOf(Tail(vals)))

\* the test of the flicker loop on a record with both fields numeric:
\* the measured modulation, clipped to clip_percent_mod_range, against the
\* allowed modulation at the record's frequency
is_violation(f, mod, prof) ==
    RLess(allowed_mod_percent(f.x.n, prof.percent_mod_vs_freq),
          clip(mod.x, prof.clip_lo, prof.clip_hi))

\* the flicker loop: evaluated and violations over the minutes
RECURSIVE flicker_loop(_, _)
flicker_loop(ms, prof) ==
    IF ms = <<>> THEN [evaluated |-> 0, violations |-> 0]
    ELSE LET f == SectionGet(Head(ms).light, Head(ms).tlm_freq_hz)
             mod == SectionGet(Head(ms).light, Head(ms).tlm_mod_percent)
             rest == flicker_loop(Tail(ms), prof)
         IN  IF ~IsNumber(f) \/ ~IsNumber(mod) THEN rest
             ELSE [evaluated |-> rest.evaluated + 1,
                   violations |-> rest.violations + (IF is_violation(f, mod, prof) THEN 1 ELSE 0)]

\* out["noise"] = {} and out["flicker"] = {}
EmptyNoise == [present |-> FALSE, limit_db |-> NoneF, pct_over |-> R(0, 1), mean_laeq |-> NoneF]

EmptyFlicker == [present |-> FALSE, evaluated |-> 0, violations |-> 0, pct_violations |-> R(0, 1)]

\* the flags list without repeats, first occurrences kept
RECURSIVE Dedup(_)
Dedup(flags) ==
    IF flags = <<>> THEN <<>>
    ELSE LET init == Dedup(SubSeq(flags, 1, Len(flags) - 1))
             last == flags[Len(flags)]
         IN  IF \E i \in 1 .. Len(init) : init[i] = last THEN init ELSE Append(init, last)

EvalRaise(e) ==
    [raised |-> TRUE, exc |-> e, n_minutes |-> 0, flags |-> <<>>,
     noise |-> EmptyNoise, flicker |-> EmptyFlicker,
     trace |-> [locale_requested |-> NoLocale, locale_resolved |-> NoLocale,
                noise_limit_source |-> "default"]]

\* evaluate(minutes_path, profile, locale), ms being the minutes the file
\* holds; the percentile entries, which no flag reads, are left out
evaluate(ms, prof, locale) ==
    LET n == Len(ms)
        loc_norm == normalize_locale(locale, prof)
        by_locale == prof.limits_is_dict /\ loc_norm # NoLocale /\ loc_norm \in DOMAIN prof.laeq_limits_db
        limit == IF ~prof.limits_is_dict THEN NoneF
                 ELSE IF by_locale THEN Some(R(prof.laeq_limits_db[loc_norm], 1))
                 ELSE IF "default" \in DOMAIN prof.laeq_limits_db
                 THEN Some(R(prof.laeq_limits_db["default"], 1))
                 ELSE Some(R(55, 1))
        vals == laeq_vals(ms)
        over == pct_of(CountOver(vals, limit.x.n), Len(vals))
        pct_over == IF vals # <<>> /\ limit.some THEN over ELSE Return(R(0, 1))
        mean == IF vals # <<>> THEN Div(SumOf(vals), Len(vals)) ELSE Return(R(0, 1))
        noise_thr == IF prof.noise_flag_threshold_pct.some
                     THEN prof.noise_flag_threshold_pct.x ELSE R(10, 1)
        fl == flicker_loop(ms, prof)
        pct_viol == pct_of(fl.violations, fl.evaluated)
        flick_thr == IF prof.flicker_flag_threshold_pct.some
                     THEN prof.flicker_flag_threshold_pct.x ELSE R(0, 1)
        trace == [locale_requested |-> locale, locale_resolved |-> loc_norm,
                  noise_limit_source |-> IF by_locale THEN loc_norm ELSE "default"]
    IN  IF n = 0
        THEN [raised |-> FALSE, exc |-> "", n_minutes |-> 0, flags |-> <<"no data">>,
              noise |-> EmptyNoise, flicker |-> EmptyFlicker,
              trace |-> [locale_requested |-> locale, locale_resolved |-> NoLocale,
                         noise_limit_source |-> "default"]]
        ELSE IF \E i \in 1 .. n : ms[i].audio = "str" \/ ms[i].light = "str"
        THEN EvalRaise("AttributeError")
        ELSE IF pct_over.raised THEN EvalRaise(pct_over.exc)
        ELSE IF mean.raised THEN EvalRaise(mean.exc)
        ELSE IF pct_viol.raised THEN EvalRaise(pct_viol.exc)
        ELSE [raised |-> FALSE, exc |-> "", n_minutes |-> n,
              flags |-> Dedup(
                  (IF RLess(noise_thr, pct_over.val) /\ limit.some THEN <<"Noise">> ELSE <<>>)
                  \o (IF RLess(flick_thr, pct_viol.val) THEN <<"Flicker">> ELSE <<>>)),
              noise |-> [present |-> TRUE, limit_db |-> limit, pct_over |-> pct_over.val,
                         mean_laeq |-> IF vals # <<>> THEN Some(mean.val) ELSE NoneF],
              flicker |-> [present |-> TRUE, evaluated |-> fl.evaluated,
                           violations |-> fl.violations, pct_violations |-> pct_viol.val],
              trace |-> trace]

(* -------------------------- calls of evaluate --------------------------- *)

MaxMinutes == 3

\* {"segments": [{"f_min": 80, "f_max": 120, "a": 0.1, "b": 600}]}
Curve1 ==
    [default |-> NoneF,
     segments |-> <<Seg(80, 120, "ab", R(1, 10), R(600, 1), R(0, 1))>>,
     clip_allowed_range |-> [some |-> FALSE, lo |-> R(0, 1), hi |-> R(0, 1)]]

\* the same curve with "clip_allowed_range": [0, 100]
Curve1Clipped ==
    [Curve1 EXCEPT !.clip_allowed_range = [some |-> TRUE, lo |-> R(0, 1), hi |-> R(100, 1)]]

\* {} : no segments, no default
CurveEmpty ==
    [default |-> NoneF, segments |-> <<>>,
     clip_allowed_range |-> [some |-> FALSE, lo |-> R(0, 1), hi |-> R(0, 1)]]

\* the noise.laeq_limits_db tables: with and without a default
LimitsFull == [loc \in {"default", "munich"} |-> IF loc = "munich" THEN 50 ELSE 55]

LimitsNoDefault == [loc \in {"munich"} |-> 50]

\* the four settings of thresholds, clip range and curve
ProfileVariant(v, base) ==
    CASE v = 1 -> base
      [] v = 2 -> [base EXCEPT !.noise_flag_threshold_pct = Some(R(50, 1)),
                               !.flicker_flag_threshold_pct = Some(R(50, 1)),
                               !.clip_lo = Some(R(0, 1)), !.clip_hi = Some(R(5, 1))]
      [] v = 3 -> [base EXCEPT !.noise_flag_threshold_pct = Some(R(-1, 1)),
                               !.percent_mod_vs_freq = CurveEmpty]
      [] v = 4 -> [base EXCEPT !.noise_flag_threshold_pct = Some(R(0, 1)),
                               !.clip_lo = Some(R(0, 1)), !.clip_hi = Some(R(100, 1)),
                               !.percent_mod_vs_freq = Curve1Clipped]

BaseProfile(kind, limits_is_dict, limits) ==
    [kind |-> kind, aliases |-> [tok \in {"muc"} |-> " Munich "],
     laeq_limits_db |-> limits, percent_mod_vs_freq |-> Curve1,
     clip_lo |-> NoneF, clip_hi |-> NoneF, limits_is_dict |-> limits_is_dict,
     noise_flag_threshold_pct |-> NoneF, flicker_flag_threshold_pct |-> NoneF]

\* a RulesProfile as load_profile returns it (the default limit always
\* there), and plain mappings
ProfileInputs ==
    {ProfileVariant(v, b) : v \in 1 .. 4,
        b \in {BaseProfile("dataclass", TRUE, LimitsFull),
               BaseProfile("mapping", TRUE, LimitsFull),
               BaseProfile("mapping", TRUE, LimitsNoDefault),
               BaseProfile("mapping", FALSE, LimitsNoDefault)}}

\* the lines of a minutes file
MinuteInputs ==
    {Minute("obj", VNum(70, 1), "obj", VNum(100, 1), VNum(7, 1)),
     Minute("obj", VNum(55, 1), "obj", VNum(100, 1), VNum(61, 10)),
     Minute("obj", VNum(50, 1), "absent", VAbsent, VAbsent),
     Minute("obj", VAbsent, "obj", VNum(100, 1), VAbsent),
     Minute("obj", VBool(TRUE), "obj", VBool(TRUE), VNum(2, 1)),
     Minute("null", VAbsent, "obj", VNum(0, 1), VNum(3, 1)),
     Minute("str", VAbsent, "null", VAbsent, VAbsent)}

LocaleInputs == {NoLocale, " Munich ", "MUC", "paris"}

\* one more line in the minutes file
AppendMinute(m) ==
    /\ out = <<>>
    /\ Len(ev_minutes) < MaxMinutes
    /\ ev_minutes' = Append(ev_minutes, m)
    /\ UNCHANGED <<ledgerVars, hashVars, profile, out, serverVars, curveVars>>

\* evaluate(minutes_path, profile, locale)
Evaluate(locale) ==
    /\ out = <<>>
    /\ out' = <<evaluate(ev_minutes, profile, locale)>>
    /\ UNCHANGED <<ledgerVars, hashVars, ev_minutes, profile, serverVars, curveVars>>

InitEval ==
    /\ InitCommon
    /\ env = DefaultEnv
    /\ HashIdle /\ ServerIdle /\ CurveIdle
    /\ ev_minutes = <<>>
    /\ profile \in ProfileInputs
    /\ out = <<>>

NextEval ==
    \/ \E m \in MinuteInputs : AppendMinute(m)
    \/ \E locale \in LocaleInputs : Evaluate(locale)

SpecEval == InitEval /\ [][NextEval]_vars

(* ---------------------------- server/app.py ---------------------------- *)

MaxRequests == 3

\* no Idempotency-Key header (or an empty one: the handler tests its truth)
NoKey == ""

\* a line of an upload that parses as a JSON object: its idx, whether it
\* passes _basic_minute_check, whether chain.signature_hex is truthy, and a
\* tag for the rest of its content
Line(idx, ok, signed, tag) == [ok |-> ok, idx |-> idx, signed |-> signed, tag |-> tag]

\* an upload: its object lines, or a line json.loads rejects
Upload(malformed, lines) == [malformed |-> malformed, lines |-> lines]

UploadInputs ==
    {Upload(FALSE, <<Line(0, TRUE, FALSE, 1)>> \o <<Line(1, TRUE, FALSE, 1)>>),
     Upload(FALSE, <<Line(0, TRUE, TRUE, 2)>> \o <<Line(1, FALSE, FALSE, 2)>>),
     Upload(TRUE, <<>>)}

\* (session_id, Idempotency-Key) of the calls
CallInputs == {<<"s1", "k1">>, <<"s1", "k2">>, <<"s2", "k1">>, <<"s1", NoKey>>}

\* _parse_jsonl_bytes
parse_jsonl_bytes(file) == IF file.malformed THEN Raise("ValueError") ELSE Return(file.lines)

\* the lines _basic_minute_check has no complaint about
accepted_of(records) == SelectSeq(records, LAMBDA m : m.ok)

\* sqlite_store.ingest with conflict = "replace": INSERT OR REPLACE on the
\* key (session, idx)
sqlite_ingest(store, session, accepted) ==
    LET idxs == {accepted[i].idx : i \in 1 .. Len(accepted)}
        last(x) == CHOOSE i \in 1 .. Len(accepted) :
                       /\ accepted[i].idx = x
                       /\ \A j \in 1 .. Len(accepted) : accepted[j].idx = x => j <= i
    IN  {r \in store : ~(r.session = session /\ r.idx \in idxs)}
            \cup {[session |-> session, idx |-> x, tag |-> accepted[last(x)].tag] : x \in idxs}

\* the receipt of lines 140-149
Receipt(session_id, accepted, rejected) ==
    [session_id |-> session_id,
     accepted_records |-> Len(accepted),
     rejected_records |-> rejected,
     schema |-> IF rejected = 0 THEN "ok" ELSE "partial",
     chain_hash |-> "unchecked",
     signatures |-> IF \E i \in 1 .. Len(accepted) : accepted[i].signed
                    THEN "present" ELSE "missing"]

\* the body of an error response
ErrBody == [error |-> "bad_request"]

\* _IDEMP_CACHE[key] = receipt
CachePut(cache, key, receipt) ==
    {e \in cache : e.key # key} \cup {[key |-> key, receipt |-> receipt]}

CacheHas(cache, key) == \E e \in cache : e.key = key

CacheGet(cache, key) == (CHOOSE e \in cache : e.key = key).receipt

\* _SESSION_LAST_RESULTS[session_id]["last_ingest"] = receipt
LastPut(last, session_id, receipt) ==
    {e \in last : e.session # session_id} \cup {[session |-> session_id, last_ingest |-> receipt]}

\* a response as the client sees it, with what the call did: 'began' is the
\* number of responses already returned when the call was made, 'wrote'
\* whether it reached the store
Response(id, call, file, status, body, began, wrote) ==
    [id |-> id, session_id |-> call[1], idempotency_key |-> call[2], file |-> file,
     status |-> status, body |-> body, began |-> began, wrote |-> wrote]

\* ingest_jsonl up to 'await file.read()': the idempotency check
IngestBegin(call, file) ==
    LET id == Len(responses) + Cardinality(inflight) + 1
    IN  /\ id <= MaxRequests
        /\ IF call[2] # NoKey /\ CacheHas(IDEMP_CACHE, call)
           THEN /\ responses' = Append(responses,
                       Response(id, call, file, 200, CacheGet(IDEMP_CACHE, call),
                                Len(responses), FALSE))
                /\ UNCHANGED inflight
           ELSE /\ inflight' = inflight \cup
                       {[id |-> id, call |-> call, file |-> file, began |-> Len(responses)]}
                /\ UNCHANGED responses
        /\ UNCHANGED <<ledgerVars, hashVars, evalVars, curveVars, IDEMP_CACHE, db, SESSION_LAST_RESULTS>>

\* ingest_jsonl from the return of 'await file.read()' to the response
IngestFinish(req) ==
    LET parsed == parse_jsonl_bytes(req.file)
        accepted == accepted_of(parsed.val)
        rejected == Len(parsed.val) - Len(accepted)
        receipt == Receipt(req.call[1], accepted, rejected)
    IN  /\ req \in inflight
        /\ inflight' = inflight \ {req}
        /\ IF parsed.raised
           THEN /\ responses' = Append(responses,
                       Response(req.id, req.call, req.file, 400, ErrBody, req.began, FALSE))
                /\ UNCHANGED <<IDEMP_CACHE, db, SESSION_LAST_RESULTS>>
           ELSE /\ db' = IF accepted # <<>>
                         THEN sqlite_ingest(db, req.call[1], accepted) ELSE db
                /\ IDEMP_CACHE' = IF req.call[2] # NoKey
                                  THEN CachePut(IDEMP_CACHE, req.call, receipt)
                                  ELSE IDEMP_CACHE
                /\ SESSION_LAST_RESULTS' = LastPut(SESSION_LAST_RESULTS, req.call[1], receipt)
                /\ responses' = Append(responses,
                       Response(req.id, req.call, req.file, 202, receipt, req.began,
                                accepted # <<>>))
        /\ UNCHANGED <<ledgerVars, hashVars, evalVars, curveVars>>

InitIngest ==
    /\ InitCommon
    /\ env = DefaultEnv
    /\ HashIdle /\ EvalIdle /\ ServerIdle /\ CurveIdle

NextIngest ==
    \/ \E call \in CallInputs, file \in UploadInputs : IngestBegin(call, file)
    \/ \E req \in inflight : IngestFinish(req)

SpecIngest == InitIngest /\ [][NextIngest]_vars

(* ------------------------------- claims -------------------------------- *)

TamperKinds == {"delete", "delete_trailing", "insert", "append_chained", "reorder", "alter_payload"}

\* C1 as stated: every deletion (leading, middle or trailing), insertion,
\* reordering or payload change of a chain built by make_record makes
\* verify_chain return ok = False.
C1_AnyTamperDetected ==
    (vc.ran /\ tamper.kind \in TamperKinds) => ~vc.ok

\* C1 amended: verify_chain returns ok = False (and does not raise) after a
\* deletion that removes a record followed by a kept one, after an insertion
\* other than appending a record chained on the last hash, after a
\* reordering, and after a payload change that leaves the hashes alone.
C1_TamperDetected ==
    (vc.ran /\ tamper.kind \in {"delete", "insert", "reorder", "alter_payload"})
        => (~vc.ok /\ ~vc.raised)

C1_Witness ==
    /\ vc.ran
    /\ tamper.kind = "delete"
    /\ Len(orig) = 3
    /\ Len(minutes) = 2
    /\ vc.idx = 1

\* the records the producer signed (sign=True)
AllSigned(ms) == \A i \in 1 .. Len(ms) : ms[i].scheme # Absent

Count(ms, status) == Cardinality({i \in 1 .. Len(ms) : ms[i].ann = status})

\* C2: a record signed again with a key other than the one registered for
\* its device, that key's public key placed in its chain block, is never
\* classified valid by the ledger verifier.
C2_ResignedNeverValid ==
    (tamper.kind = "resign" /\ verdicts # <<>>)
        => minutes[tamper.at + 1].ann # "valid"

\* C3: an unmodified chain of N records, all signed by the producer, with an
\* Ed25519 backend the signer accepts (PyNaCl or cryptography), verifies ok
\* with no break and valid = N, invalid = missing = unverified = 0.
C3_SignedChainAllValid ==
    (tamper = NoTamper /\ verdicts # <<>> /\ (env.nacl \/ env.crypto) /\ AllSigned(orig))
        => /\ ~verdicts[1].raised
           /\ verdicts[1].ok
           /\ verdicts[1].breaks = <<>>
           /\ verdicts[1].valid = Len(orig)
           /\ verdicts[1].invalid = 0
           /\ verdicts[1].missing = 0
           /\ verdicts[1].unverified = 0

\* C4: when only record k's stored chain.hash of a valid chain is altered,
\* the ledger verifier returns ok = false, the first break index is k, and
\* the four signature counts add up to N; verify_chain reports index k too.
C4_AlteredHashLocalized ==
    /\ (tamper.kind = "alter_hash" /\ verdicts # <<>>)
        => /\ ~verdicts[1].raised
           /\ ~verdicts[1].ok
           /\ verdicts[1].breaks # <<>>
           /\ verdicts[1].breaks[1] = tamper.at
           /\ verdicts[1].valid + verdicts[1].invalid + verdicts[1].missing
                  + verdicts[1].unverified = Len(orig)
    /\ (tamper.kind = "alter_hash" /\ vc.ran)
        => (~vc.raised /\ ~vc.ok /\ vc.idx = tamper.at)
    /\ (tamper = NoTamper /\ verdicts # <<>>) => verdicts[1].ok
    /\ (tamper = NoTamper /\ vc.ran) => vc.ok

C4_Witness ==
    /\ tamper.kind = "alter_hash"
    /\ tamper.at = 1
    /\ Len(orig) = 3
    /\ verdicts # <<>>
    /\ verdicts[1].breaks[1] = 1
    /\ verdicts[1].valid = 3

\* C7: the ledger verifier never raises, whatever the parsed records are.
C7_LedgerNeverRaises ==
    \A c \in 1 .. Len(verdicts) : ~verdicts[c].raised

\* the records are objects whose chain block, when present, is an object or
\* null and whose scheme, when present, is a string or null
WellShaped(ms) ==
    \A i \in 1 .. Len(ms) :
        /\ ms[i].shape = "obj"
        /\ ms[i].chain # "str"
        /\ ms[i].scheme.t # "num"

\* C9: every call classifies each record as exactly one of valid, invalid,
\* missing, unverified; the counts are the numbers of records so classified,
\* they add up to N, and total = valid + invalid + unverified, chain break
\* or not.
C9_Partition ==
    (verdicts # <<>> /\ WellShaped(minutes)) =>
        LET v == verdicts[Len(verdicts)]
        IN  /\ ~v.raised
            /\ \A i \in 1 .. Len(minutes) :
                   minutes[i].ann \in {"valid", "invalid", "missing", "unverified"}
            /\ v.valid = Count(minutes, "valid")
            /\ v.invalid = Count(minutes, "invalid")
            /\ v.missing = Count(minutes, "missing")
            /\ v.unverified = Count(minutes, "unverified")
            /\ v.valid + v.invalid + v.missing + v.unverified = Len(minutes)
            /\ v.total = v.valid + v.invalid + v.unverified

C9_Witness ==
    /\ Len(verdicts) = 1
    /\ Len(minutes) = 3
    /\ verdicts[1].breaks # <<>>
    /\ verdicts[1].breaks[1] = 0
    /\ minutes[1].ann = "missing"
    /\ minutes[2].ann = "valid"
    /\ minutes[3].ann = "valid"
    /\ verdicts[1].valid = 2
    /\ verdicts[1].missing = 1

\* C10: two successive calls of the ledger verifier on the same in-memory
\* list return the same verdict.
C10_SecondCallSameVerdict ==
    Len(verdicts) >= 2 => verdicts[2] = verdicts[1]

\* C5: in strict mode verify_bytes returns False for every call whose scheme
\* is sha256-demo.
C5_StrictRejectsDemo ==
    (vfy # <<>> /\ env.strict /\ vfy[1].scheme = Txt(SHA256_DEMO))
        => vfy[1].res = Return(FALSE)

\* C6: sign_bytes with a backend returns an ed25519 block with a public key
\* (or raises on a seed of the wrong length, returning no block); with no
\* backend and strict off it returns a sha256-demo block with public_key
\* null; with no backend and strict on it raises; so no sha256-demo block is
\* returned in strict mode.
C6_SchemeSelection ==
    sgn # <<>> =>
        LET r == sgn[1].res
            seed == IF sgn[1].private_key_hex # 0 THEN sgn[1].private_key_hex ELSE env.seed
        IN  /\ (env.nacl \/ env.crypto) =>
                   /\ r.raised <=> seed = BadSeed
                   /\ ~r.raised => /\ r.val.scheme = Txt(ED25519)
                                   /\ r.val.public_key_hex.t = "hex"
                                   /\ r.val.public_key_hex.v # <<>>
            /\ (~env.nacl /\ ~env.crypto /\ ~env.strict) =>
                   /\ ~r.raised
                   /\ r.val.scheme = Txt(SHA256_DEMO)
                   /\ r.val.public_key_hex = Null
            /\ (~env.nacl /\ ~env.crypto /\ env.strict) => r.raised
            /\ (env.strict /\ ~r.raised) => r.val.scheme # Txt(SHA256_DEMO)

C6_Witness ==
    /\ sgn # <<>>
    /\ ~env.nacl /\ ~env.crypto /\ env.strict
    /\ sgn[1].res.raised
    /\ sgn[1].res.exc = "RuntimeError"

\* C8: verify_bytes returns True or False and never raises, for every data,
\* signature, public key, scheme and backend availability.
C8_VerifyBytesTotal ==
    vfy # <<>> => (~vfy[1].res.raised /\ vfy[1].res.val \in BOOLEAN)

\* C11: in a chain h0 = chain_hash(None, p0), hj = chain_hash(hj-1, pj),
\* replacing payload i by one with a different canonical form and computing
\* the chain again changes the hash at every index j >= i and leaves the hash
\* at every index j < i as it was.
C11_TamperPropagates ==
    hc.op = "tamper" =>
        /\ Len(hc.hs2) = Len(hc.hs)
        /\ \A j \in 1 .. Len(hc.hs) :
               /\ j < hc.at => hc.hs2[j] = hc.hs[j]
               /\ j >= hc.at => hc.hs2[j] # hc.hs[j]

C11_Witness ==
    /\ hc.op = "tamper"
    /\ hc.at = 2
    /\ Len(hc.hs) = 3
    /\ hc.hs2[1] = hc.hs[1]
    /\ hc.hs2[3] # hc.hs[3]

\* C12: two payloads with the same keys and values, the members of objects
\* (nested in objects or arrays included) inserted in different orders, have
\* the same canonical_json output and the same chain_hash under the same
\* prev.
C12_KeyOrderIndependent ==
    hc.op = "canon" =>
        /\ hc.cjP = hc.cjQ
        /\ hc.hP = hc.hQ

C12_Witness ==
    /\ hc.op = "canon"
    /\ hc.P = ArrayObj(1)
    /\ hc.Q # hc.P
    /\ hc.Q.kids[1].k = hc.P.kids[1].k
    /\ ~hc.hP.raised
    /\ hc.prev # Null

\* the code of the hash function a supported alg names
AlgCode(alg) == IF alg = Txt(BLAKE2B) THEN BLAKE2B ELSE SHA256

C14_FirstLinkIsPlainDigest ==
    (hc.op = "chain_hash" /\ hc.prev = Null /\ hc.alg = Txt(SHA256) /\ ~hc.h.raised) =>
        hc.h.val = Hex(Hash(SHA256, hc.cj.val))

\* C16: make_record raises on a payload that has a 'chain' key and returns
\* nothing; on a payload without one, when chain_hash(prev, payload, alg)
\* has a value, it returns a record with the payload's keys and values and
\* the chain block {alg, hash: chain_hash(prev, payload, alg), prev: prev};
\* the payload dict is left as it was in both cases.
C16_MakeRecord ==
    hc.op = "make_record" =>
        LET d == chain_hash(hc.prev, hc.payload, hc.alg, CHAIN_DOMAIN)
        IN  /\ "chain" \in DOMAIN hc.payload =>
                   (hc.res.raised /\ hc.res.exc = "ValueError" /\ hc.res.val = <<>>)
            /\ ("chain" \notin DOMAIN hc.payload /\ ~d.raised) =>
                   /\ ~hc.res.raised
                   /\ PayloadOf(hc.res.val) = hc.payload
                   /\ hc.res.val.chain = "obj"
                   /\ hc.res.val.alg = hc.alg
                   /\ hc.res.val.hash = d.val
                   /\ hc.res.val.prev = hc.prev
                   /\ hc.res.val.scheme = Absent
            /\ DOMAIN hc.res.payload = DOMAIN hc.payload
            /\ hc.res.payload = hc.payload

C16_Witness ==
    /\ hc.op = "make_record"
    /\ "chain" \notin DOMAIN hc.payload
    /\ ~hc.res.raised
    /\ hc.prev = Hex(Hash(SHA256, <<JUNK>>))
    /\ hc.res.val.prev = hc.prev
    /\ hc.alg = Txt(BLAKE2B)

C16_WitnessRaises ==
    /\ hc.op = "make_record"
    /\ "chain" \in DOMAIN hc.payload
    /\ hc.res.raised

\* C15: with an Ed25519 backend installed, for every 32-byte seed and every
\* message m, verify_bytes(m, sign_bytes(m, seed).signature_hex, the public
\* key of seed, "ed25519") is True, and with another message in place of m
\* it is False.
C15_RoundTrip ==
    (/\ sgn # <<>> /\ vfy # <<>>
     /\ (env.nacl \/ env.crypto)
     /\ sgn[1].private_key_hex \in Keys
     /\ vfy[1].scheme = Txt(ED25519)
     /\ vfy[1].public_key_hex = PubHex(sgn[1].private_key_hex))
        => /\ ~sgn[1].res.raised
           /\ sgn[1].res.val.scheme = Txt(ED25519)
           /\ sgn[1].res.val.public_key_hex = PubHex(sgn[1].private_key_hex)
           /\ vfy[1].signature_hex = sgn[1].res.val.signature_hex
                  => vfy[1].res = Return(vfy[1].data = sgn[1].data)

C15_Witness ==
    /\ sgn # <<>> /\ vfy # <<>>
    /\ env.crypto /\ ~env.nacl
    /\ sgn[1].private_key_hex = 2
    /\ ~sgn[1].res.raised
    /\ vfy[1].scheme = Txt(ED25519)
    /\ vfy[1].public_key_hex = PubHex(2)
    /\ vfy[1].signature_hex = sgn[1].res.val.signature_hex
    /\ vfy[1].data = sgn[1].data
    /\ vfy[1].res = Return(TRUE)

\* the minutes that carry a number as sound level (json true / false count:
\* they are ints to isinstance)
WithLevel(ms) ==
    {i \in 1 .. Len(ms) : ms[i].audio = "obj" /\ ms[i].laeq_db.t \in {"num", "bool"}}

\* the minutes that carry a number as frequency and as modulation depth
WithFlicker(ms) ==
    {i \in 1 .. Len(ms) : /\ ms[i].light = "obj"
                          /\ ms[i].tlm_freq_hz.t \in {"num", "bool"}
                          /\ ms[i].tlm_mod_percent.t \in {"num", "bool"}}

\* C17: when evaluate returns a report with a resolved limit L, pct_over is
\* 100 * k / m, m the number of records with a numeric sound level and k the
\* number of those strictly greater than L, and 0 when m = 0; the noise flag
\* is in flags exactly when pct_over > noise.flag_threshold_pct (default 10).
C17_NoisePctOver ==
    (out # <<>> /\ ~out[1].raised /\ out[1].noise.present /\ out[1].noise.limit_db.some) =>
        LET L == out[1].noise.limit_db.x
            m == Cardinality(WithLevel(ev_minutes))
            k == Cardinality({i \in WithLevel(ev_minutes) : RLess(L, ev_minutes[i].laeq_db.x)})
            thr == IF profile.noise_flag_threshold_pct.some
                   THEN profile.noise_flag_threshold_pct.x ELSE R(10, 1)
        IN  /\ m = 0 => REq(out[1].noise.pct_over, R(0, 1))
            /\ m > 0 => REq(out[1].noise.pct_over, R(100 * k, m))
            /\ (\E i \in 1 .. Len(out[1].flags) : out[1].flags[i] = "Noise")
                   <=> RLess(thr, out[1].noise.pct_over)

C17_Witness ==
    /\ out # <<>> /\ ~out[1].raised
    /\ Len(ev_minutes) = 3
    /\ ev_minutes[1].laeq_db = VNum(70, 1)
    /\ ev_minutes[2].laeq_db = VNum(55, 1)
    /\ ev_minutes[3].laeq_db = VAbsent
    /\ out[1].noise.limit_db = Some(R(55, 1))
    /\ REq(out[1].noise.pct_over, R(50, 1))
    /\ out[1].flags # <<>>
    /\ out[1].flags[1] = "Noise"

\* C18: evaluated is the number of records with a numeric frequency and a
\* numeric modulation depth, violations the number of those whose measured
\* modulation exceeds the allowed modulation at their frequency, under
\* every profile configuration, and 0 <= violations <= evaluated <= n.
C18_FlickerViolations ==
    (out # <<>> /\ ~out[1].raised /\ out[1].flicker.present) =>
        /\ out[1].flicker.evaluated = Cardinality(WithFlicker(ev_minutes))
        /\ out[1].flicker.violations =
               Cardinality({i \in WithFlicker(ev_minutes) :
                   RLess(allowed_mod_percent(ev_minutes[i].tlm_freq_hz.x.n, profile.percent_mod_vs_freq),
                         ev_minutes[i].tlm_mod_percent.x)})
        /\ 0 <= out[1].flicker.violations
        /\ out[1].flicker.violations <= out[1].flicker.evaluated
        /\ out[1].flicker.evaluated <= out[1].n_minutes

\* C19: on an empty record set evaluate returns flags ["no data"] with empty
\* noise and flicker blocks; on no record set, those with no sound level or
\* no record with both flicker fields included, does it divide by zero.
C19_NoDataNoDivision ==
    out # <<>> =>
        /\ out[1].exc # "ZeroDivisionError"
        /\ ev_minutes = <<>> =>
               /\ ~out[1].raised
               /\ out[1].flags = <<"no data">>
               /\ out[1].noise = EmptyNoise
               /\ out[1].flicker = EmptyFlicker
               /\ out[1].n_minutes = 0

C19_Witness ==
    /\ out # <<>> /\ ~out[1].raised
    /\ Len(ev_minutes) = 2
    /\ WithLevel(ev_minutes) = {}
    /\ WithFlicker(ev_minutes) = {}
    /\ out[1].flicker.present
    /\ out[1].flicker.evaluated = 0
    /\ REq(out[1].flicker.pct_violations, R(0, 1))
    /\ REq(out[1].noise.pct_over, R(0, 1))

C19_WitnessEmpty ==
    /\ out # <<>>
    /\ ev_minutes = <<>>
    /\ out[1].flags = <<"no data">>

\* what a call that is processed normally answers for its upload
Processed(r) ==
    LET parsed == parse_jsonl_bytes(r.file)
        accepted == accepted_of(parsed.val)
    IN  IF parsed.raised THEN r.status = 400 /\ r.body = ErrBody
        ELSE /\ r.status = 202
             /\ r.body = Receipt(r.session_id, accepted, Len(parsed.val) - Len(accepted))

\* C20: once ingest_jsonl for session S with Idempotency-Key K has returned
\* a receipt, every call made later with the same (S, K) returns that same
\* receipt and writes nothing to the store, whatever file it uploads; calls
\* with no key are processed normally, and so is the first call of a
\* (session, key) pair.
C20_IdempotentIngest ==
    \A j \in 1 .. Len(responses) :
        LET earlier == {i \in 1 .. Len(responses) :
                           /\ i <= responses[j].began
                           /\ responses[i].status # 400
                           /\ responses[i].session_id = responses[j].session_id
                           /\ responses[i].idempotency_key = responses[j].idempotency_key}
        IN  IF responses[j].idempotency_key = NoKey \/ earlier = {}
            THEN Processed(responses[j])
            ELSE \A i \in earlier :
                     /\ responses[j].body = responses[i].body
                     /\ ~responses[j].wrote

\* C21: verify_chain reports a break at index i whenever record i carries a
\* chain.prev whose value differs from the tracked previous hash (the stored
\* hash of record i-1, null at i = 0), a non-null prev at index 0 and a null
\* prev at an index > 0 included, even when the stored hash of record i
\* recomputes correctly.
C21_PrevMismatchBreaks ==
    (vc.ran /\ tamper.kind = "alter_prev") =>
        (~vc.raised /\ ~vc.ok /\ vc.idx = tamper.at)

C25_LedgerHonoursAlg ==
    /\ (tamper = NoTamper /\ verdicts # <<>>)
        => /\ ~verdicts[1].raised
           /\ verdicts[1].ok
           /\ verdicts[1].breaks = <<>>
    /\ (tamper = NoTamper /\ vc.ran) => (vc.ok /\ ~vc.raised)

\* C26: after a verifier returns, every record of its input has exactly the
\* keys and values it had before the call: no '_sig_status' key appears and,
\* on an unedited list, the records are those the producer wrote.
C26_VerifiersOnlyRead ==
    (verdicts # <<>> \/ vc.ran \/ cloud # <<>>) =>
        /\ \A i \in 1 .. Len(minutes) : minutes[i].shape = "obj" => minutes[i].ann = "none"
        /\ tamper = NoTamper => minutes = orig

\* the payload of the record as the first call of the verifier read it
SignedPayload(rec) == [pl |-> rec.pl, dev |-> rec.dev, ann |-> "none"]

\* the signature in the record's chain block verifies, with the key in the
\* block, against SIGN_DOMAIN followed by the canonical payload
VerifiesDomainSeparated(rec) ==
    LET cj == canonical_json(SignedPayload(rec))
    IN  /\ ~cj.raised
        /\ ed_verify(<<SIGN_DOMAIN>> \o cj.val, ChainGet(rec, "signature_hex"),
                      ChainGet(rec, "public_key_hex"))

\* C23: every ed25519 signature block the record producer attaches has a
\* non-null public key and verifies, with that key, against SIGN_DOMAIN
\* followed by the canonical payload; and the ledger verifier classifies an
\* ed25519 signature as valid only if it verifies against that message.
C23_DomainSeparatedSignatures ==
    /\ \A i \in 1 .. Len(orig) :
           orig[i].scheme = Txt(ED25519) =>
               /\ Get(orig[i].public_key_hex) # Null
               /\ VerifiesDomainSeparated(orig[i])
    /\ Len(verdicts) = 1 =>
           \A i \in 1 .. Len(minutes) :
               (minutes[i].shape = "obj" /\ minutes[i].ann = "valid")
                   => VerifiesDomainSeparated(minutes[i])

\* the record has a signature in its chain block
HasSignature(rec) == ChainGet(rec, "signature_hex") # Null

\* C24: a record is classified missing exactly when it has no signature at
\* all; a record whose signature cannot be confirmed (ed25519 with a null
\* public key, sha256-demo, an unrecognized scheme) is classified invalid or
\* unverified, never missing.
C24_MissingMeansNoSignature ==
    (Len(verdicts) = 1 /\ ~verdicts[1].raised) =>
        \A i \in 1 .. Len(minutes) :
            /\ minutes[i].ann = "missing" <=> ~HasSignature(minutes[i])
            /\ HasSignature(minutes[i]) => minutes[i].ann \in {"valid", "invalid", "unverified"}

\* the limit the claim names for a requested locale: that of the case-folded
\* token, else that of the locale the alias table of the profile document
\* maps the token to, else the default, else 55
ClaimedLimit(prof, locale) ==
    LET limits == prof.laeq_limits_db
        tok == casefold(locale)
        dflt == IF "default" \in DOMAIN limits THEN limits["default"] ELSE 55
        mapped == IF tok \in DOMAIN prof.aliases THEN casefold(prof.aliases[tok]) ELSE tok
    IN  IF locale = NoLocale THEN dflt
        ELSE IF tok \in DOMAIN limits THEN limits[tok]
        ELSE IF mapped \in DOMAIN limits THEN limits[mapped]
        ELSE dflt

\* C27: the noise limit evaluate applies is limits[L], L the case-folded
\* requested locale if it has a configured limit, otherwise the configured
\* locale the profile's alias table maps the token to; with neither, or with
\* no locale requested, it is limits.default, or 55 when there is no
\* default; for profiles returned by load_profile as for plain mappings.
C27_LimitResolution ==
    (out # <<>> /\ ~out[1].raised /\ out[1].noise.present /\ profile.limits_is_dict) =>
        out[1].noise.limit_db = Some(R(ClaimedLimit(profile, out[1].trace.locale_requested), 1))

\* the positions of the segments of cfg that float() accepts and that
\* contain f
Containing(cfg, f) ==
    {i \in 1 .. Len(cfg.segments) :
        /\ cfg.segments[i].ok
        /\ cfg.segments[i].f_min <= f
        /\ f <= cfg.segments[i].f_max}

\* the value the first segment containing f gives (first in ascending f_min
\* order, segments of equal f_min in the order given), the default when no
\* segment contains f or that segment has neither form; then the clamp to
\* clip_allowed_range and to >= 0
FirstMatchValue(cfg, f) ==
    LET M == Containing(cfg, f)
        first == CHOOSE i \in M : \A j \in M :
                     \/ cfg.segments[i].f_min < cfg.segments[j].f_min
                     \/ (cfg.segments[i].f_min = cfg.segments[j].f_min /\ i <= j)
        sg == cfg.segments[first]
        dflt == IF cfg.default.some THEN cfg.default.x ELSE R(1, 1)
        raw == IF M = {} \/ sg.form = "none" THEN dflt
               ELSE IF sg.form = "max" THEN sg.max_percent
               ELSE RAdd(sg.a, R(sg.b.n, sg.b.d * f))
        clamped == IF ~cfg.clip_allowed_range.some THEN raw
                   ELSE IF RLess(raw, cfg.clip_allowed_range.lo) THEN cfg.clip_allowed_range.lo
                   ELSE IF RLess(cfg.clip_allowed_range.hi, raw) THEN cfg.clip_allowed_range.hi
                   ELSE raw
    IN  IF RLess(clamped, R(0, 1)) THEN R(0, 1) ELSE clamped

Ascending(segs) == \A i, j \in 1 .. Len(segs) : i < j => segs[i].f_min <= segs[j].f_min

C29_AllowedInRange ==
    allowance # <<>> =>
        /\ RLeq(R(0, 1), allowance[1].val)
        /\ curve.clip_allowed_range.some =>
               /\ RLeq(curve.clip_allowed_range.lo, allowance[1].val)
               /\ RLeq(allowance[1].val, curve.clip_allowed_range.hi)

\* C30: with no Ed25519 backend and strict mode off, whatever key sign_bytes
\* was given (none, private_key_hex, or AVSAFE_PRIV_HEX), verify_bytes of
\* the signature it returned, with no public key and scheme "sha256-demo",
\* is True for the signed message and False for any other message.
C30_DemoRoundTrip ==
    (/\ sgn # <<>>
     /\ vfy # <<>>
     /\ ~env.nacl /\ ~env.crypto /\ ~env.strict
     /\ vfy[1].signature_hex = sgn[1].res.val.signature_hex
     /\ vfy[1].public_key_hex = Null
     /\ vfy[1].scheme = Txt(SHA256_DEMO))
    => vfy[1].res = Return(vfy[1].data = sgn[1].data)

====
